---------------------------- MODULE Spec2Model ----------------------------
(***************************************************************************)
(* Model of the Agno client core (packages/core/src): the AgnoClient       *)
(* controller (client.ts), the EventProcessor reducer and the MessageStore *)
(* ledger (processors/event-processor.ts) and the ConfigManager            *)
(* (managers/config-manager.ts).                                           *)
(*                                                                         *)
(* Conventions.  A JavaScript string is a sequence of one-character        *)
(* strings.  An optional value is a sequence of length at most one: <<>>   *)
(* is undefined, <<v>> is the value v.  Numeric ids use 0 for undefined    *)
(* (0 and undefined are both falsy in the conditions the code evaluates).  *)
(* A tool call is a function from the keys it carries to their values, so  *)
(* that the object spread {...a, ...b} is an overwrite of a by b.          *)
(***************************************************************************)
EXTENDS Integers, Sequences, FiniteSets, TLC

VARIABLES
    isStreaming,            \* ClientState.isStreaming
    isPaused,               \* ClientState.isPaused
    pausedRunId,            \* ClientState.pausedRunId (0 = undefined)
    toolsAwaitingExecution, \* ClientState.toolsAwaitingExecution (optional list)
    errorMessage,           \* ClientState.errorMessage
    sessions,               \* ClientState.sessions, newest first
    messages,               \* MessageStore.messages
    lastContent,            \* EventProcessor.lastContent
    pendingUISpecs,         \* AgnoClient.pendingUISpecs: set of <<toolCallId, spec>>
    config,                 \* ConfigManager.config: mode, agentId, teamId, sessionId
    streams,                \* the streamResponse calls and their closures
    requests,               \* streamResponse calls issued so far, in order
    frames,                 \* frames delivered so far, over all streams
    emitted,                \* notifications emitted by the last operation, in order
    lastOp,                 \* the last operation and how its call ended
    calc                    \* the last call of a function outside AgnoClient:
                            \* its name, its arguments and its value

vars == <<isStreaming, isPaused, pausedRunId, toolsAwaitingExecution,
          errorMessage, sessions, messages, lastContent, pendingUISpecs,
          config, streams, requests, frames, emitted, lastOp, calc>>

\* the state of the AgnoClient instance
clientVars == <<isStreaming, isPaused, pausedRunId, toolsAwaitingExecution,
                errorMessage, sessions, messages, lastContent, pendingUISpecs,
                config, streams, requests, frames, emitted, lastOp>>

\* RunState as returned by getState (sessions are listed separately)
runState == <<isStreaming, isPaused, pausedRunId, toolsAwaitingExecution,
              errorMessage>>

(***************************************************************************)
(* Bounds of the model                                                     *)
(***************************************************************************)
MaxStreams == 2      \* streamResponse calls that may be open at once
MaxRuns == 2         \* streamResponse calls issued in one behaviour
MaxFrames == 2       \* frames delivered in one behaviour of the controller
MaxContentLen == 2   \* length of the strings carried by RunContent frames
MaxContentFrames == 3 \* frames delivered in one behaviour of the content reducer
MaxContentRuns == 1   \* sends issued in one behaviour of the content reducer
MaxToolFrames == 2   \* frames delivered in one behaviour of the tool-call reducer
MaxSessionFrames == 3 \* frames delivered in one behaviour of the session handling
MaxScriptFrames == 4 \* frames delivered in one behaviour of the end-to-end exchange
MaxPendingFrames == 2 \* frames delivered in one behaviour of the pending attachments
MaxPendingRuns == 1   \* sends issued in one behaviour of the pending attachments
MaxRetryRuns == 2     \* sends issued in one behaviour of the retry cleanup
MaxRetryFrames == 1   \* frames delivered in one behaviour of the retry cleanup
MaxContinueFrames == 2 \* frames delivered in one behaviour of the continued runs
MaxToolResults == 2   \* tool results passed to one continueRun
MaxContinueSends == 1 \* requests made before the last send of the continued runs
MaxPausedFrames == 1  \* frames delivered in one behaviour of the pause handling
MaxRunRecords == 2    \* run records of one session history
MaxWireFrames == 2    \* frames serialised into one response body
MaxReducerFrames == 3 \* frames delivered in one behaviour of the reducer's fields
MaxReducerRuns == 1   \* sends issued in one behaviour of the reducer's fields
MaxLiveRuns == 2      \* runs started in one behaviour of the termination
MaxLiveFrames == 2    \* frames delivered in one behaviour of the termination

(***************************************************************************)
(* Values                                                                  *)
(***************************************************************************)
None == <<>>
Some(v) == <<v>>

Chars == {"a", "b"}

RECURSIVE StringsUpTo(_)
StringsUpTo(n) ==
    IF n = 0 THEN {<<>>}
    ELSE LET shorter == StringsUpTo(n - 1)
         IN  shorter \cup {Append(s, c) : s \in {t \in shorter : Len(t) = n - 1}, c \in Chars}

IsPrefix(p, s) == Len(p) <= Len(s) /\ SubSeq(s, 1, Len(p)) = p

\* JavaScript truthiness of an optional number or string id held as a number
Truthy(n) == n # 0

Has(obj, key) == key \in DOMAIN obj
\* obj[key] when the key is present and truthy, 0 otherwise
Field(obj, key) == IF Has(obj, key) THEN obj[key] ELSE 0


(***************************************************************************)
(* Tool calls (event-processor.ts)                                         *)
(*                                                                         *)
(* tool_call_id is a string.  It is held as a pair: <<"call", k>> is an    *)
(* opaque id, <<n, c>> is the string `${n}-${c}`, the shape of the         *)
(* fallback identity, which a server-chosen id may also have.              *)
(***************************************************************************)
NameOf(tc) == IF Has(tc, "tool_name") THEN tc.tool_name ELSE ""
CreatedOf(tc) == IF Has(tc, "created_at") THEN tc.created_at ELSE 0
HasId(tc) == Has(tc, "tool_call_id")
\* `${tc.tool_name}-${tc.created_at}`
FallbackId(tc) == <<NameOf(tc), CreatedOf(tc)>>

\* { ...a, ...b }
Spread(a, b) ==
    [k \in (DOMAIN a) \cup (DOMAIN b) |-> IF k \in DOMAIN b THEN b[k] ELSE a[k]]

\* prevToolCalls.findIndex(...) of processToolCall; 0 when nothing matches
ExistingToolCallIndex(toolCall, prevToolCalls) ==
    LET toolCallId == IF HasId(toolCall) THEN toolCall.tool_call_id
                      ELSE FallbackId(toolCall)
        Matches(tc) ==
            \/ HasId(tc) /\ HasId(toolCall) /\ tc.tool_call_id = toolCall.tool_call_id
            \/ /\ ~HasId(tc)
               /\ NameOf(toolCall) # ""
               /\ CreatedOf(toolCall) # 0
               /\ FallbackId(tc) = toolCallId
        hits == {i \in 1..Len(prevToolCalls) : Matches(prevToolCalls[i])}
    IN  IF hits = {} THEN 0 ELSE CHOOSE i \in hits : \A j \in hits : i <= j

processToolCall(toolCall, prevToolCalls) ==
    LET existingToolCallIndex == ExistingToolCallIndex(toolCall, prevToolCalls)
    IN  IF existingToolCallIndex > 0
        THEN [prevToolCalls EXCEPT ![existingToolCallIndex] =
                  Spread(prevToolCalls[existingToolCallIndex], toolCall)]
        ELSE Append(prevToolCalls, toolCall)

RECURSIVE ProcessToolCallList(_, _)
\* the for-of loop of processChunkToolCalls over chunk.tools
ProcessToolCallList(list, acc) ==
    IF list = <<>> THEN acc
    ELSE ProcessToolCallList(Tail(list), processToolCall(Head(list), acc))

processChunkToolCalls(chunk, existingToolCalls) ==
    LET afterTool == IF chunk.tool # None
                     THEN processToolCall(chunk.tool[1], existingToolCalls)
                     ELSE existingToolCalls
    IN  IF chunk.tools # None /\ Len(chunk.tools[1]) > 0
        THEN ProcessToolCallList(chunk.tools[1], afterTool)
        ELSE afterTool

(***************************************************************************)
(* Frames (RunResponse) and the content they carry                         *)
(***************************************************************************)
StartedEvents == {"RunStarted", "TeamRunStarted", "ReasoningStarted",
                  "TeamReasoningStarted"}
ToolCallEvents == {"ToolCallStarted", "TeamToolCallStarted",
                   "ToolCallCompleted", "TeamToolCallCompleted"}
ContentEvents == {"RunContent", "TeamRunContent"}
CompletedEvents == {"RunCompleted", "TeamRunCompleted"}
ErrorEvents == {"RunError", "TeamRunError", "TeamRunCancelled"}

\* chunk.content: a string, an object (held as its serialisation), null, or
\* no content field at all
Str(s) == [kind |-> "string", s |-> s]
Obj(s) == [kind |-> "object", s |-> s]
NullContent == [kind |-> "null", s |-> <<>>]
NoContent == [kind |-> "undefined", s |-> <<>>]

EmptyFrame ==
    [event |-> "UpdatingMemory", content |-> NoContent, session_id |-> 0,
     run_id |-> 0, created_at |-> 0, tool |-> None, tools |-> None,
     tools_awaiting_external_execution |-> None,
     tools_requiring_confirmation |-> None,
     tools_requiring_user_input |-> None]

\* the text JavaScript renders for undefined and for null
UndefinedText == <<"undefined">>
NullText == <<"null">>

\* JSON.stringify(content): undefined has no serialisation
JsonStringify(content) ==
    CASE content.kind = "undefined" -> UndefinedText
      [] content.kind = "null" -> NullText
      [] OTHER -> content.s

\* getJsonMarkdown: an opening fence, JSON.stringify(content, null, 2), a
\* closing fence ("fence-json" and "fence" are single characters here)
getJsonMarkdown(content) == <<"fence-json">> \o JsonStringify(content) \o <<"fence">>

\* ReplaceFirst without the removal: the whole content is appended again
ReplaceNothing(s, pattern) == s

\* String.prototype.replace(pattern, '') with a string pattern: the first
\* occurrence of the pattern is removed
ReplaceFirst(s, pattern) ==
    LET n == Len(pattern)
        occ == {i \in 1..(Len(s) - n + 1) : SubSeq(s, i, i + n - 1) = pattern}
    IN  IF n = 0 \/ occ = {} THEN s
        ELSE LET i == CHOOSE k \in occ : \A j \in occ : k <= j
             IN  SubSeq(s, 1, i - 1) \o SubSeq(s, i + n, Len(s))

(***************************************************************************)
(* EventProcessor.processChunk: the updated message and the processor's    *)
(* lastContent after the frame                                             *)
(***************************************************************************)
\* obj.extra_data, the empty object when there is none (what the spread and
\* the ?. chains of the reducer make of undefined)
ExtraData(obj) == IF Has(obj, "extra_data") THEN obj.extra_data ELSE <<>>

\* the merge of generated_ui by tool_call_id (an entry without tool_call_id
\* has the id undefined, which equals itself)
RECURSIVE MergedUI(_, _)
MergedUI(mergedUI, incomingUI) ==
    IF incomingUI = <<>> THEN mergedUI
    ELSE LET uiData == Head(incomingUI)
             IdOf(ui) == IF HasId(ui) THEN Some(ui.tool_call_id) ELSE None
             hits == {i \in 1..Len(mergedUI) : IdOf(mergedUI[i]) = IdOf(uiData)}
             existingIndex == IF hits = {} THEN 0
                              ELSE CHOOSE i \in hits : \A j \in hits : i <= j
         IN  MergedUI(IF existingIndex > 0
                      THEN [mergedUI EXCEPT ![existingIndex] = Spread(@, uiData)]
                      ELSE Append(mergedUI, uiData),
                      Tail(incomingUI))

\* ReasoningStepExtraData replacing the steps by the incoming ones
ReasoningStepExtraDataReplaced(chunk, lastMessage) ==
    Spread(ExtraData(lastMessage),
           [reasoning_steps |->
                IF Has(ExtraData(chunk), "reasoning_steps")
                THEN ExtraData(chunk).reasoning_steps ELSE <<>>])

\* extra_data after a ReasoningStep frame
ReasoningStepExtraData(chunk, lastMessage) ==
    LET existingSteps == IF Has(ExtraData(lastMessage), "reasoning_steps")
                         THEN ExtraData(lastMessage).reasoning_steps ELSE <<>>
        incomingSteps == IF Has(ExtraData(chunk), "reasoning_steps")
                         THEN ExtraData(chunk).reasoning_steps ELSE <<>>
    IN  Spread(ExtraData(lastMessage),
               [reasoning_steps |-> existingSteps \o incomingSteps])

\* extra_data after a RunCompleted frame: each of the three fields is the
\* frame's when the frame has it and the message's otherwise (a field that
\* is undefined is no key of the object)
CompletedExtraData(chunk, lastMessage) ==
    LET keys == {"reasoning_steps", "references", "generated_ui"}
        from == ExtraData(chunk)
        prev == ExtraData(lastMessage)
    IN  [k \in {f \in keys : Has(from, f) \/ Has(prev, f)} |->
            IF Has(from, k) THEN from[k] ELSE prev[k]]

processChunk(chunk, lastMessage, last) ==
    IF lastMessage.role # "agent" THEN [message |-> lastMessage, lastContent |-> last]
    ELSE
    LET \* msg with the fields of the object fields set
        With(msg, fields) == Spread(msg, fields)
        \* msg.key = chunk[key] when the frame has the field
        Taken(msg, key) == IF Has(chunk, key) THEN With(msg, key :> chunk[key])
                           ELSE msg
        \* msg.key = chunk[key], undefined when the frame has no such field
        Assigned(msg, key) ==
            IF Has(chunk, key) THEN With(msg, key :> chunk[key])
            ELSE [k \in (DOMAIN msg) \ {key} |-> msg[k]]
        createdAt == IF chunk.created_at # 0 THEN chunk.created_at
                     ELSE lastMessage.created_at
    IN
    CASE chunk.event \in ToolCallEvents ->
           [message |-> [lastMessage EXCEPT !.tool_calls =
                             processChunkToolCalls(chunk, lastMessage.tool_calls)],
            lastContent |-> last]
      [] chunk.event \in ContentEvents ->
           LET uniqueContent == ReplaceFirst(chunk.content.s, last)
               jsonBlock == getJsonMarkdown(chunk.content)
               content == CASE chunk.content.kind = "string" ->
                                 lastMessage.content \o uniqueContent
                            [] chunk.content.kind = "null" -> lastMessage.content
                            [] OTHER -> lastMessage.content \o jsonBlock
               newLast == CASE chunk.content.kind = "string" -> chunk.content.s
                            [] chunk.content.kind = "null" -> last
                            [] OTHER -> jsonBlock
               base == [lastMessage EXCEPT
                           !.content = content,
                           !.tool_calls =
                               processChunkToolCalls(chunk, lastMessage.tool_calls),
                           !.created_at = createdAt]
               from == ExtraData(chunk)
               Steps(prev) ==
                   IF Has(from, "reasoning_steps")
                   THEN Spread(prev, [reasoning_steps |-> from.reasoning_steps])
                   ELSE prev
               Refs(prev) ==
                   IF Has(from, "references")
                   THEN Spread(prev, [references |-> from.references])
                   ELSE prev
               UI(prev) ==
                   IF Has(from, "generated_ui")
                   THEN Spread(prev,
                            [generated_ui |->
                                 MergedUI(IF Has(prev, "generated_ui")
                                          THEN prev.generated_ui ELSE <<>>,
                                          from.generated_ui)])
                   ELSE prev
               Extra(msg) ==
                   IF \E k \in {"reasoning_steps", "references",
                                "generated_ui"} : Has(from, k)
                   THEN With(msg, [extra_data |-> UI(Refs(Steps(ExtraData(msg))))])
                   ELSE msg
               Transcript(old) ==
                   Spread(old,
                          [transcript |->
                               (IF Has(old, "transcript")
                                THEN old.transcript ELSE <<>>)
                               \o chunk.response_audio.transcript])
               Said(msg) ==
                   IF /\ Has(chunk, "response_audio")
                      /\ Has(chunk.response_audio, "transcript")
                      /\ chunk.response_audio.transcript # <<>>
                   THEN With(msg,
                            [response_audio |->
                                 Transcript(IF Has(msg, "response_audio")
                                            THEN msg.response_audio ELSE <<>>)])
                   ELSE msg
           IN  [message |-> Said(Taken(Taken(Taken(Extra(base), "images"),
                                             "videos"), "audio")),
                lastContent |-> newLast]
      [] chunk.event \in {"ReasoningStep", "TeamReasoningStep"} ->
           [message |-> With(lastMessage,
                             [extra_data |->
                                  ReasoningStepExtraData(chunk, lastMessage)]),
            lastContent |-> last]
      [] chunk.event \in {"ReasoningCompleted", "TeamReasoningCompleted"} ->
           [message |->
                IF Has(ExtraData(chunk), "reasoning_steps")
                THEN With(lastMessage,
                          [extra_data |->
                               Spread(ExtraData(lastMessage),
                                      [reasoning_steps |->
                                           ExtraData(chunk).reasoning_steps])])
                ELSE lastMessage,
            lastContent |-> last]
      [] chunk.event \in CompletedEvents ->
           LET updatedContent == IF chunk.content.kind = "string"
                                 THEN chunk.content.s
                                 ELSE JsonStringify(chunk.content)
               base == [lastMessage EXCEPT
                           !.content = updatedContent,
                           !.tool_calls =
                               processChunkToolCalls(chunk, lastMessage.tool_calls),
                           !.created_at = createdAt]
           IN  [message |->
                    With(Assigned(Taken(Taken(base, "images"), "videos"),
                                  "response_audio"),
                         [extra_data |-> CompletedExtraData(chunk, lastMessage)]),
                lastContent |-> last]
      [] chunk.event \in ErrorEvents ->
           [message |-> [lastMessage EXCEPT !.streamingError = TRUE],
            lastContent |-> last]
      [] OTHER -> [message |-> lastMessage, lastContent |-> last]

(***************************************************************************)
(* MessageStore                                                            *)
(***************************************************************************)
getLastMessage(msgs) == IF Len(msgs) > 0 THEN Some(msgs[Len(msgs)]) ELSE None

\* ReplaceLast appending the updater's result instead of replacing the last
\* message by it
ReplaceLastAppends(msgs, updatedMessage) == Append(msgs, updatedMessage)

\* updateLastMessage with the updater's result already computed
ReplaceLast(msgs, updatedMessage) ==
    IF Len(msgs) = 0 THEN msgs
    ELSE [msgs EXCEPT ![Len(msgs)] = updatedMessage]

\* updateMessage(index, updater) with the updater's result already computed
\* (index counted from 1): the message at the index is replaced, the others
\* are kept
updateMessage(msgs, index, updatedMessage) ==
    [msgs EXCEPT ![index] = updatedMessage]

removeLastMessages(msgs, count) ==
    IF count >= Len(msgs) THEN <<>> ELSE SubSeq(msgs, 1, Len(msgs) - count)


(***************************************************************************)
(* ConfigManager                                                           *)
(***************************************************************************)
getMode == config.mode
getCurrentEntityId == IF getMode = "agent" THEN config.agentId ELSE config.teamId
\* getRunUrl() is null exactly when no entity is selected for the mode
HasRunUrl == Truthy(getCurrentEntityId)

(***************************************************************************)
(* Pending UI specs (client.ts)                                            *)
(***************************************************************************)
PendingIds(pending) == {p[1] : p \in pending}
PendingGet(pending, id) == (CHOOSE p \in pending : p[1] = id)[2]
PendingDelete(pending, id) == {p \in pending : p[1] # id}
PendingSet(pending, id, uiSpec) == PendingDelete(pending, id) \cup {<<id, uiSpec>>}

RECURSIVE ApplyPendingToToolCalls(_, _, _)
\* inner loop of applyPendingUISpecs over one message's tool calls, from j on
ApplyPendingToToolCalls(toolCalls, j, pending) ==
    IF j > Len(toolCalls) THEN [tool_calls |-> toolCalls, pending |-> pending]
    ELSE LET toolCall == toolCalls[j]
         IN  IF /\ HasId(toolCall)
                /\ toolCall.tool_call_id \in PendingIds(pending)
                /\ ~Has(toolCall, "ui_component")
             THEN ApplyPendingToToolCalls(
                      [toolCalls EXCEPT ![j] =
                          Spread(toolCall,
                                 [ui_component |-> PendingGet(pending, toolCall.tool_call_id)])],
                      j + 1,
                      PendingDelete(pending, toolCall.tool_call_id))
             ELSE ApplyPendingToToolCalls(toolCalls, j + 1, pending)

RECURSIVE ApplyPendingToMessages(_, _, _)
\* outer loop of applyPendingUISpecs, from message i down to the first
ApplyPendingToMessages(msgs, i, pending) ==
    IF i = 0 THEN [messages |-> msgs, pending |-> pending]
    ELSE LET r == ApplyPendingToToolCalls(msgs[i].tool_calls, 1, pending)
         IN  ApplyPendingToMessages(
                 updateMessage(msgs, i, [msgs[i] EXCEPT !.tool_calls = r.tool_calls]),
                 i - 1, r.pending)

\* applyPendingUISpecs that merges nothing
applyPendingNothing(msgs, pending) ==
    [messages |-> msgs, pending |-> pending, emitted |-> <<>>]

\* applyPendingUISpecs: the ledger, the pending map and the notifications
applyPendingUISpecs(msgs, pending) ==
    IF pending = {} THEN [messages |-> msgs, pending |-> pending, emitted |-> <<>>]
    ELSE LET r == ApplyPendingToMessages(msgs, Len(msgs), pending)
         IN  [messages |-> r.messages, pending |-> r.pending,
              emitted |-> IF r.messages # msgs THEN <<"message:update">> ELSE <<>>]

(***************************************************************************)
(* Streams: one entry per streamResponse call.  sid is the closure         *)
(* variable newSessionId (send) or currentSessionId (continue), msg the    *)
(* submitted text.  The other fields record the call's history: paused    *)
(* and completed tell that a RunPaused and a RunCompleted frame arrived,   *)
(* introduced is the session id this call added to the known sessions (0   *)
(* if none), errorAfter tells that an error frame arrived after that,      *)
(* alone that no other call was open when this one started.  hasContent    *)
(* tells that a RunContent frame arrived, last is the string content of    *)
(* the latest one, and cumulative tells that the content-bearing frames    *)
(* so far were all RunContent frames with a string content that extends    *)
(* the one before.  errored tells that an error frame arrived, before is   *)
(* the set of session ids known when the call started, and script counts   *)
(* the frames of EndToEndScript the call has delivered in order (-1 once   *)
(* it has delivered anything else).                                        *)
(***************************************************************************)
ClosedStream ==
    [open |-> FALSE, kind |-> "none", sid |-> 0, msg |-> <<>>,
     paused |-> FALSE, completed |-> FALSE, introduced |-> 0,
     errorAfter |-> FALSE, alone |-> FALSE, hasContent |-> FALSE,
     last |-> <<>>, cumulative |-> FALSE, errored |-> FALSE,
     before |-> {}, script |-> 0]

OpenStreams == {k \in 1..MaxStreams : streams[k].open}
FreeSlots == {k \in 1..MaxStreams : ~streams[k].open}
FirstFree == CHOOSE k \in FreeSlots : \A j \in FreeSlots : k <= j
\* a new streamResponse call fits the bounds of the model
CanStart == FreeSlots # {} /\ Len(requests) < MaxRuns
\* streamResponse (parsers/stream-parser.ts): a call hands each decoded
\* frame to onChunk, in arrival order, and ends by calling exactly one of
\* onComplete and onError, after which it calls nothing
Delivering(k) == streams[k].open

KnownSessionIds(ss) == {ss[i].session_id : i \in 1..Len(ss)}
\* this.state.sessions.filter((s) => s.session_id !== id)
RECURSIVE WithoutSession(_, _)
WithoutSession(ss, id) ==
    IF ss = <<>> THEN <<>>
    ELSE IF Head(ss).session_id = id THEN WithoutSession(Tail(ss), id)
         ELSE <<Head(ss)>> \o WithoutSession(Tail(ss), id)

NoError == [kind |-> "none", s |-> <<>>]

(***************************************************************************)
(* AgnoClient.handleChunk                                                  *)
(***************************************************************************)
\* sessionExists with the lookup left out
sessionExistsNever(chunk) == FALSE

\* this.state.sessions.some((s) => s.session_id === chunk.session_id)
sessionExists(chunk) == chunk.session_id \in KnownSessionIds(sessions)

\* the session-creation block: the known sessions after it
SessionsAfterCreation(chunk, currentSessionId, messageContent) ==
    IF /\ chunk.event \in StartedEvents
       /\ Truthy(chunk.session_id)
       /\ (~Truthy(currentSessionId) \/ currentSessionId # chunk.session_id)
       /\ ~sessionExists(chunk)
    THEN <<[session_id |-> chunk.session_id, session_name |-> messageContent]>>
             \o sessions
    ELSE sessions

\* the || chain that picks the tools of a RunPaused frame
PausedTools(chunk) ==
    IF chunk.tools_awaiting_external_execution # None
    THEN chunk.tools_awaiting_external_execution[1]
    ELSE IF chunk.tools_requiring_confirmation # None
    THEN chunk.tools_requiring_confirmation[1]
    ELSE IF chunk.tools_requiring_user_input # None
    THEN chunk.tools_requiring_user_input[1]
    ELSE IF chunk.tools # None THEN chunk.tools[1]
    ELSE <<>>

\* errorContent of the error block
ErrorContent(chunk) ==
    IF chunk.content.kind = "object"
       \/ (chunk.content.kind = "string" /\ chunk.content.s # <<>>)
    THEN [kind |-> "content", s |-> chunk.content.s]
    ELSE IF chunk.event = "TeamRunCancelled"
         THEN [kind |-> "Run cancelled", s |-> <<>>]
         ELSE [kind |-> "Error during run", s |-> <<>>]

\* the sessions an error frame leaves: the frame's own session id is dropped
SessionsAfterErrorFrame(chunk, ss) ==
    IF Truthy(chunk.session_id) THEN WithoutSession(ss, chunk.session_id) ELSE ss

\* messageStore.updateLastMessage((msg) => ({...msg, streamingError: true}))
FlagLastMessage(msgs) ==
    IF Len(msgs) = 0 THEN msgs
    ELSE ReplaceLast(msgs, [msgs[Len(msgs)] EXCEPT !.streamingError = TRUE])

\* The state handleChunk leaves, as a record of the fields it may write
handleChunk(chunk, currentSessionId, messageContent) ==
    LET created == SessionsAfterCreation(chunk, currentSessionId, messageContent)
        createdEmit == IF created # sessions THEN <<"session:created">> ELSE <<>>
        unchanged ==
            [isStreaming |-> isStreaming, isPaused |-> isPaused,
             pausedRunId |-> pausedRunId,
             toolsAwaitingExecution |-> toolsAwaitingExecution,
             errorMessage |-> errorMessage, sessions |-> created,
             messages |-> messages, lastContent |-> lastContent,
             pendingUISpecs |-> pendingUISpecs, emitted |-> createdEmit]
    IN  IF chunk.event = "RunPaused"
        THEN [unchanged EXCEPT
                 !.isStreaming = FALSE,
                 !.isPaused = TRUE,
                 !.pausedRunId = chunk.run_id,
                 !.toolsAwaitingExecution = Some(PausedTools(chunk)),
                 !.emitted = createdEmit \o <<"run:paused", "state:change">>]
        ELSE IF chunk.event \in ErrorEvents
        THEN [unchanged EXCEPT
                 !.errorMessage = ErrorContent(chunk),
                 !.messages = FlagLastMessage(messages),
                 !.sessions = SessionsAfterErrorFrame(chunk, created),
                 !.emitted = createdEmit \o <<"message:error">>]
        ELSE LET Stored(processed) ==
                     LET updated == IF Len(messages) = 0 THEN messages
                                    ELSE ReplaceLast(messages, processed.message)
                         Applied(applied) ==
                             [unchanged EXCEPT
                                 !.messages = applied.messages,
                                 !.lastContent = processed.lastContent,
                                 !.pendingUISpecs = applied.pending,
                                 !.emitted = createdEmit \o applied.emitted
                                             \o <<"message:update">>]
                     IN  Applied(applyPendingUISpecs(updated, pendingUISpecs))
             IN  Stored(IF Len(messages) = 0
                        THEN [message |-> EmptyFrame, lastContent |-> lastContent]
                        ELSE processChunk(chunk, messages[Len(messages)],
                                          lastContent))

\* AgnoClient.handleError: the fields it writes
handleError(sessionId) ==
    [isStreaming |-> FALSE,
     errorMessage |-> [kind |-> "transport", s |-> <<>>],
     messages |-> FlagLastMessage(messages),
     sessions |-> IF Truthy(sessionId) THEN WithoutSession(sessions, sessionId)
                  ELSE sessions,
     emitted |-> <<"message:error", "stream:end", "state:change">>]

(***************************************************************************)
(* Inputs                                                                  *)
(***************************************************************************)
\* the reading of Math.floor(Date.now() / 1000); the clock is not modelled
Now == 1

T1 == [tool_call_id |-> <<"call", 1>>, tool_name |-> "f", created_at |-> 1]
T2 == [tool_call_id |-> <<"call", 2>>, tool_name |-> "g", created_at |-> 2]
UISpecs == {"ui1", "ui2"}

UserInputs == {<<"h">>}
SessionIds == {1, 2}

Frame(event) == [EmptyFrame EXCEPT !.event = event]

\* the exchange of the end-to-end example: the user sends "Hi", the server
\* answers with session s1 (id 1) and the cumulative contents "Hello",
\* "Hello there"
Hi == <<"H", "i">>
Hello == <<"H", "e", "l", "l", "o">>
HelloThere == Hello \o <<" ", "t", "h", "e", "r", "e">>
EndToEndScript ==
    <<[Frame("RunStarted") EXCEPT !.session_id = 1],
      [Frame("RunContent") EXCEPT !.content = Str(Hello)],
      [Frame("RunContent") EXCEPT !.content = Str(HelloThere)],
      [Frame("RunCompleted") EXCEPT !.content = Str(HelloThere)]>>

StartedFrames ==
    {[Frame("RunStarted") EXCEPT !.session_id = sid] : sid \in SessionIds}
ContentFrames == {[Frame("RunContent") EXCEPT !.content = Str(<<"a">>)]}
ToolFrames == {[Frame("ToolCallStarted") EXCEPT !.tool = Some(T1)]}
CompletedFrames == {[Frame("RunCompleted") EXCEPT !.content = Str(<<"a">>)]}
PausedFrames ==
    {[Frame("RunPaused") EXCEPT !.run_id = 1,
                                !.tools_awaiting_external_execution = Some(<<T1>>)],
     Frame("RunPaused")}
ErrorFrames ==
    {[Frame("RunError") EXCEPT !.session_id = sid] : sid \in {0, 1}}

\* the frames a stream of the controller specification may deliver
WireFrames ==
    StartedFrames \cup ContentFrames \cup ToolFrames \cup CompletedFrames
    \cup PausedFrames \cup ErrorFrames

\* the tool results a caller may pass to continueRun
ContinueTools ==
    {<<Spread(T1, [result |-> "r", ui_component |-> "ui1"])>>}

(***************************************************************************)
(* Operations of AgnoClient                                                *)
(***************************************************************************)
\* no function outside AgnoClient has been called
NoCall == [fn |-> "none", args |-> <<>>, value |-> <<>>]

Op(name, result) ==
    [op |-> name, result |-> result, chunk |-> EmptyFrame, stream |-> ClosedStream,
     tools |-> <<>>]

\* SendSessionField that never sends the session id
SendSessionFieldEmpty(newSessionId) == [kind |-> "empty", id |-> 0]

\* the session_id field of the form sendMessage posts: newSessionId ?? ''
SendSessionField(newSessionId) ==
    IF Truthy(newSessionId) THEN [kind |-> "id", id |-> newSessionId]
    ELSE [kind |-> "empty", id |-> 0]

\* the session_id field of the form continueRun posts: appended only when
\* the current session id is truthy
ContinueSessionField(currentSessionId) ==
    IF Truthy(currentSessionId) THEN [kind |-> "id", id |-> currentSessionId]
    ELSE [kind |-> "absent", id |-> 0]

\* AlreadyStreaming testing the wrong flag
AlreadyStreamingWhenPaused == isPaused

\* the guard of sendMessage that throws 'Already streaming a message'
AlreadyStreaming == isStreaming

\* the retry cleanup of sendMessage
AfterRetryCleanup(msgs) ==
    IF /\ Len(msgs) > 0
       /\ msgs[Len(msgs)].streamingError
       /\ Len(msgs) >= 2
       /\ msgs[Len(msgs) - 1].role = "user"
    THEN removeLastMessages(msgs, 2)
    ELSE msgs

UserMessage(message) ==
    [role |-> "user", content |-> message, tool_calls |-> <<>>,
     streamingError |-> FALSE, created_at |-> Now]
PlaceholderMessage ==
    [role |-> "agent", content |-> <<>>, tool_calls |-> <<>>,
     streamingError |-> FALSE, created_at |-> Now + 1]

sendMessage(message) ==
    IF AlreadyStreaming
    THEN /\ lastOp' = Op("sendMessage", "Already streaming a message")
         /\ emitted' = <<>>
         /\ UNCHANGED <<calc, isStreaming, isPaused, pausedRunId, toolsAwaitingExecution,
                        errorMessage, sessions, messages, lastContent,
                        pendingUISpecs, config, streams, requests, frames>>
    ELSE IF ~HasRunUrl
    THEN /\ lastOp' = Op("sendMessage", "No agent or team selected")
         /\ emitted' = <<>>
         /\ UNCHANGED <<calc, isStreaming, isPaused, pausedRunId, toolsAwaitingExecution,
                        errorMessage, sessions, messages, lastContent,
                        pendingUISpecs, config, streams, requests, frames>>
    ELSE /\ CanStart
         /\ isStreaming' = TRUE
         /\ errorMessage' = NoError
         /\ messages' = AfterRetryCleanup(messages)
                            \o <<UserMessage(message), PlaceholderMessage>>
         /\ lastContent' = <<>>
         /\ requests' = Append(requests,
                [kind |-> "send",
                 session_id |-> SendSessionField(config.sessionId),
                 run_id |-> 0, tools |-> <<>>])
         /\ streams' = [streams EXCEPT ![FirstFree] =
                [ClosedStream EXCEPT !.open = TRUE, !.kind = "send",
                                     !.sid = config.sessionId, !.msg = message,
                                     !.alone = (OpenStreams = {}),
                                     !.cumulative = TRUE,
                                     !.before = KnownSessionIds(sessions)]]
         /\ emitted' = <<"stream:start", "state:change", "message:update">>
         /\ lastOp' = Op("sendMessage", "ok")
         /\ UNCHANGED <<calc, isPaused, pausedRunId, toolsAwaitingExecution, sessions,
                        pendingUISpecs, config, frames>>

\* TeamModeRejected with the mode check left out
TeamModeAccepted == FALSE

\* the guards of continueRun, in the order the code evaluates them
TeamModeRejected == getMode = "team"
NotPaused == ~isPaused \/ ~Truthy(pausedRunId)

\* CleanedTools that transmits the tools as they were given
CleanedToolsKept(tools) == tools

\* const { ui_component, ...backendTool } = tool
RECURSIVE CleanedTools(_)
CleanedTools(tools) ==
    IF tools = <<>> THEN <<>>
    ELSE <<[k \in (DOMAIN Head(tools)) \ {"ui_component"} |-> Head(tools)[k]]>>
             \o CleanedTools(Tail(tools))

continueRun(tools) ==
    LET Rejected(result) ==
            /\ lastOp' = Op("continueRun", result)
            /\ emitted' = <<>>
            /\ UNCHANGED <<calc, isStreaming, isPaused, pausedRunId,
                           toolsAwaitingExecution, errorMessage, sessions,
                           messages, lastContent, pendingUISpecs, config,
                           streams, requests, frames>>
    IN  IF TeamModeRejected THEN Rejected("HITL is not supported for teams")
        ELSE IF NotPaused THEN Rejected("No paused run to continue")
        ELSE IF ~HasRunUrl THEN Rejected("No agent or team selected")
        ELSE /\ CanStart
             /\ isPaused' = FALSE
             /\ isStreaming' = TRUE
             /\ requests' = Append(requests,
                    [kind |-> "continue",
                     session_id |-> ContinueSessionField(config.sessionId),
                     run_id |-> pausedRunId, tools |-> CleanedTools(tools)])
             /\ streams' = [streams EXCEPT ![FirstFree] =
                    [ClosedStream EXCEPT !.open = TRUE, !.kind = "continue",
                                         !.sid = config.sessionId,
                                         !.alone = (OpenStreams = {}),
                                         !.cumulative = TRUE,
                                         !.before = KnownSessionIds(sessions)]]
             /\ emitted' = <<"run:continued", "state:change">>
             /\ lastOp' = [Op("continueRun", "ok") EXCEPT !.tools = tools]
             /\ UNCHANGED <<calc, pausedRunId, toolsAwaitingExecution, errorMessage,
                            sessions, messages, lastContent, pendingUISpecs,
                            config, frames>>

\* the onChunk callback of stream k (sendMessage and continueRun)
onChunk(k, chunk) ==
    /\ Delivering(k)
    /\ LET st == streams[k]
           commits == /\ st.kind = "send"
                      /\ chunk.event \in StartedEvents
                      /\ Truthy(chunk.session_id)
           Written(h) ==
               LET introduces == KnownSessionIds(h.sessions)
                                 \ KnownSessionIds(sessions)
               IN
               /\ isStreaming' = h.isStreaming
               /\ isPaused' = h.isPaused
               /\ pausedRunId' = h.pausedRunId
               /\ toolsAwaitingExecution' = h.toolsAwaitingExecution
               /\ errorMessage' = h.errorMessage
               /\ sessions' = h.sessions
               /\ messages' = h.messages
               /\ lastContent' = h.lastContent
               /\ pendingUISpecs' = h.pendingUISpecs
               /\ emitted' = h.emitted
               /\ config' = IF commits THEN [config EXCEPT !.sessionId = chunk.session_id]
                            ELSE config
               /\ streams' = [streams EXCEPT ![k] =
                      [st EXCEPT
                          !.sid = IF commits THEN chunk.session_id ELSE @,
                          !.paused = @ \/ chunk.event = "RunPaused",
                          !.completed = @ \/ chunk.event \in CompletedEvents,
                          !.hasContent = @ \/ chunk.event \in ContentEvents,
                          !.last = IF chunk.event \in ContentEvents
                                   THEN chunk.content.s ELSE @,
                          !.cumulative =
                              IF chunk.event \in ContentEvents
                              THEN /\ @
                                   /\ chunk.content.kind = "string"
                                   /\ IsPrefix(st.last, chunk.content.s)
                              ELSE @ /\ chunk.event \notin CompletedEvents,
                          !.introduced = IF introduces # {} THEN chunk.session_id ELSE @,
                          !.errorAfter = @ \/ (st.introduced # 0
                                               /\ chunk.event \in ErrorEvents),
                          !.errored = @ \/ chunk.event \in ErrorEvents,
                          !.script = IF /\ st.script >= 0
                                        /\ st.script < Len(EndToEndScript)
                                        /\ chunk = EndToEndScript[st.script + 1]
                                     THEN st.script + 1 ELSE -1]]
               /\ lastOp' = [Op("onChunk", "ok") EXCEPT !.chunk = chunk,
                                                      !.stream = streams'[k]]
               /\ frames' = frames + 1
               /\ UNCHANGED <<calc, requests>>
       IN  Written(handleChunk(chunk, st.sid, st.msg))

\* the onError callback and the catch block of stream k: handleError runs
\* and throws nothing, and the catch block rethrows nothing, so that the
\* promise of the sendMessage / continueRun call resolves
onError(k) ==
    /\ Delivering(k)
    /\ LET h == handleError(streams[k].sid)
       IN  /\ isStreaming' = h.isStreaming
           /\ errorMessage' = h.errorMessage
           /\ messages' = h.messages
           /\ sessions' = h.sessions
           /\ emitted' = h.emitted
    /\ streams' = [streams EXCEPT ![k] = ClosedStream]
    /\ lastOp' = [Op("onError", "resolved") EXCEPT !.stream = streams[k]]
    /\ UNCHANGED <<calc, isPaused, pausedRunId, toolsAwaitingExecution, lastContent,
                   pendingUISpecs, config, requests, frames>>

\* sendOnComplete without the reset of isStreaming
sendOnCompleteStillStreaming(k) ==
    /\ Delivering(k) /\ streams[k].kind = "send"
    /\ emitted' = <<"stream:end", "message:complete", "state:change">>
    /\ streams' = [streams EXCEPT ![k] = ClosedStream]
    /\ lastOp' = [Op("onComplete", "resolved") EXCEPT !.stream = streams[k]]
    /\ UNCHANGED <<calc, isStreaming, isPaused, pausedRunId, toolsAwaitingExecution,
                   errorMessage, sessions, messages, lastContent, pendingUISpecs,
                   config, requests, frames>>

\* the onComplete callback of a sendMessage stream
sendOnComplete(k) ==
    /\ Delivering(k) /\ streams[k].kind = "send"
    /\ isStreaming' = FALSE
    /\ emitted' = <<"stream:end", "message:complete", "state:change">>
    /\ streams' = [streams EXCEPT ![k] = ClosedStream]
    /\ lastOp' = [Op("onComplete", "resolved") EXCEPT !.stream = streams[k]]
    /\ UNCHANGED <<calc, isPaused, pausedRunId, toolsAwaitingExecution, errorMessage,
                   sessions, messages, lastContent, pendingUISpecs, config,
                   requests, frames>>

\* continueOnComplete without the reset of pausedRunId
continueOnCompleteKeepsRunId(k) ==
    /\ Delivering(k) /\ streams[k].kind = "continue"
    /\ isStreaming' = FALSE
    /\ toolsAwaitingExecution' = None
    /\ emitted' = <<"stream:end", "message:complete", "state:change">>
    /\ streams' = [streams EXCEPT ![k] = ClosedStream]
    /\ lastOp' = [Op("onComplete", "resolved") EXCEPT !.stream = streams[k]]
    /\ UNCHANGED <<calc, isPaused, pausedRunId, errorMessage, sessions, messages,
                   lastContent, pendingUISpecs, config, requests, frames>>

\* the onComplete callback of a continueRun stream
continueOnComplete(k) ==
    /\ Delivering(k) /\ streams[k].kind = "continue"
    /\ isStreaming' = FALSE
    /\ pausedRunId' = 0
    /\ toolsAwaitingExecution' = None
    /\ emitted' = <<"stream:end", "message:complete", "state:change">>
    /\ streams' = [streams EXCEPT ![k] = ClosedStream]
    /\ lastOp' = [Op("onComplete", "resolved") EXCEPT !.stream = streams[k]]
    /\ UNCHANGED <<calc, isPaused, errorMessage, sessions, messages, lastContent,
                   pendingUISpecs, config, requests, frames>>

clearMessages ==
    /\ messages' = <<>>
    /\ config' = [config EXCEPT !.sessionId = 0]
    /\ pendingUISpecs' = {}
    /\ emitted' = <<"message:update", "state:change">>
    /\ lastOp' = Op("clearMessages", "ok")
    /\ UNCHANGED <<calc, isStreaming, isPaused, pausedRunId, toolsAwaitingExecution,
                   errorMessage, sessions, lastContent, streams, requests, frames>>

\* updateConfig with a new mode and entity selection
updateConfig(mode, agentId, teamId) ==
    /\ config' = [config EXCEPT !.mode = mode, !.agentId = agentId,
                                !.teamId = teamId]
    /\ config' # config
    /\ emitted' = <<"config:change">>
    /\ lastOp' = Op("updateConfig", "ok")
    /\ UNCHANGED <<calc, isStreaming, isPaused, pausedRunId, toolsAwaitingExecution,
                   errorMessage, sessions, messages, lastContent, pendingUISpecs,
                   streams, requests, frames>>

\* the ledger position of the tool call hydrateToolCallUI updates: the last
\* message holding the id, and the first such tool call in it
HydrateTarget(msgs, toolCallId) ==
    LET holds(i) == {j \in 1..Len(msgs[i].tool_calls) :
                        /\ HasId(msgs[i].tool_calls[j])
                        /\ msgs[i].tool_calls[j].tool_call_id = toolCallId}
        msgsWith == {i \in 1..Len(msgs) : holds(i) # {}}
    IN  IF msgsWith = {} THEN <<0, 0>>
        ELSE LET i == CHOOSE m \in msgsWith : \A n \in msgsWith : n <= m
             IN  <<i, CHOOSE j \in holds(i) : \A l \in holds(i) : j <= l>>

\* the ledger hydrateToolCallUI leaves when it finds the tool call
HydratedMessages(msgs, toolCallId, uiSpec) ==
    LET target == HydrateTarget(msgs, toolCallId)
    IN  IF target[1] = 0 THEN msgs
        ELSE updateMessage(msgs, target[1],
                 [msgs[target[1]] EXCEPT !.tool_calls[target[2]] =
                     Spread(@, [ui_component |-> uiSpec])])

hydrateToolCallUI(toolCallId, uiSpec) ==
    LET target == HydrateTarget(messages, toolCallId)
    IN  /\ IF target[1] # 0
           THEN /\ messages' = HydratedMessages(messages, toolCallId, uiSpec)
                /\ pendingUISpecs' = PendingDelete(pendingUISpecs, toolCallId)
                /\ emitted' = <<"message:update">>
           ELSE /\ pendingUISpecs' = PendingSet(pendingUISpecs, toolCallId, uiSpec)
                /\ emitted' = <<>>
                /\ UNCHANGED messages
        /\ lastOp' = Op("hydrateToolCallUI", "ok")
        /\ UNCHANGED <<calc, isStreaming, isPaused, pausedRunId, toolsAwaitingExecution,
                       errorMessage, sessions, lastContent, config, streams,
                       requests, frames>>

\* t.tool_call_id as a key of the Set of existing ids: a tool call without
\* an id has the key undefined
IdKey(tc) == IF HasId(tc) THEN tc.tool_call_id ELSE <<"undefined", 0>>

\* toolCalls.filter(t => !existingIds.has(t.tool_call_id))
RECURSIVE NewToolCalls(_, _)
NewToolCalls(toolCalls, existingIds) ==
    IF toolCalls = <<>> THEN <<>>
    ELSE (IF IdKey(Head(toolCalls)) \in existingIds THEN <<>>
          ELSE <<Head(toolCalls)>>)
         \o NewToolCalls(Tail(toolCalls), existingIds)

addToolCallsToLastMessage(toolCalls) ==
    /\ IF Len(messages) = 0 \/ messages[Len(messages)].role # "agent"
       THEN UNCHANGED messages /\ emitted' = <<>>
       ELSE LET existingToolCalls == messages[Len(messages)].tool_calls
                existingIds == {IdKey(existingToolCalls[i]) :
                                   i \in 1..Len(existingToolCalls)}
                newToolCalls == NewToolCalls(toolCalls, existingIds)
            IN  IF Len(newToolCalls) > 0
                THEN /\ messages' = ReplaceLast(messages,
                            [messages[Len(messages)] EXCEPT
                                !.tool_calls = existingToolCalls \o newToolCalls])
                     /\ emitted' = <<"message:update">>
                ELSE UNCHANGED messages /\ emitted' = <<>>
    /\ lastOp' = Op("addToolCallsToLastMessage", "ok")
    /\ UNCHANGED <<calc, isStreaming, isPaused, pausedRunId, toolsAwaitingExecution,
                   errorMessage, sessions, lastContent, pendingUISpecs, config,
                   streams, requests, frames>>

\* the tool call the hydrator builds from a run's tools entry
HistoryToolCall ==
    [role |-> "tool", tool_call_id |-> T1.tool_call_id, tool_name |-> "f",
     created_at |-> Now]

\* ledgers convertSessionToMessages returns: of a session without runs, and
\* of a session with one run that called a tool
Histories ==
    {<<>>,
     <<[role |-> "user", content |-> <<"h">>, tool_calls |-> <<>>,
        streamingError |-> FALSE, created_at |-> Now],
       [role |-> "agent", content |-> <<"a">>, tool_calls |-> <<HistoryToolCall>>,
        streamingError |-> FALSE, created_at |-> Now + 1]>>}

\* loadSession whose fetch succeeded
loadSession(sessionId, history) ==
    /\ messages' = history
    /\ config' = [config EXCEPT !.sessionId = sessionId]
    /\ emitted' = <<"session:loaded", "message:update", "state:change">>
    /\ lastOp' = Op("loadSession", "ok")
    /\ UNCHANGED <<calc, isStreaming, isPaused, pausedRunId, toolsAwaitingExecution,
                   errorMessage, sessions, lastContent, pendingUISpecs, streams,
                   requests, frames>>

(***************************************************************************)
(* The controller specification                                            *)
(***************************************************************************)
Init ==
    /\ isStreaming = FALSE
    /\ isPaused = FALSE
    /\ pausedRunId = 0
    /\ toolsAwaitingExecution = None
    /\ errorMessage = NoError
    /\ sessions = <<>>
    /\ messages = <<>>
    /\ lastContent = <<>>
    /\ pendingUISpecs = {}
    /\ config \in {[mode |-> "agent", agentId |-> 1, teamId |-> 0, sessionId |-> 0],
                   [mode |-> "agent", agentId |-> 0, teamId |-> 1, sessionId |-> 0],
                   [mode |-> "team", agentId |-> 0, teamId |-> 1, sessionId |-> 0]}
    /\ streams = [k \in 1..MaxStreams |-> ClosedStream]
    /\ requests = <<>>
    /\ frames = 0
    /\ emitted = <<>>
    /\ lastOp = Op("constructor", "ok")
    /\ calc = NoCall

Next ==
    \/ \E message \in UserInputs : sendMessage(message)
    \/ \E tools \in ContinueTools : continueRun(tools)
    \/ \E k \in 1..MaxStreams, chunk \in WireFrames :
           frames < MaxFrames /\ onChunk(k, chunk)
    \/ \E k \in 1..MaxStreams : onError(k)
    \/ \E k \in 1..MaxStreams : sendOnComplete(k)
    \/ \E k \in 1..MaxStreams : continueOnComplete(k)
    \/ \E id \in {T1.tool_call_id}, uiSpec \in {"ui1"} : hydrateToolCallUI(id, uiSpec)

Spec == Init /\ [][Next]_vars

(***************************************************************************)
(* The content reducer: sends whose streams deliver RunContent frames      *)
(* with every string up to MaxContentLen, structured, null and missing     *)
(* content, and a RunCompleted frame                                       *)
(***************************************************************************)
ContentStrings == StringsUpTo(MaxContentLen)

ContentWireFrames ==
    {[Frame("RunContent") EXCEPT !.content = Str(c)] : c \in ContentStrings}
    \cup {[Frame("RunContent") EXCEPT !.content = Obj(<<"a">>)],
          [Frame("RunContent") EXCEPT !.content = NullContent],
          [Frame("RunContent") EXCEPT !.tool = Some(T1)],
          [Frame("RunCompleted") EXCEPT !.content = Str(<<"a">>)]}

InitAgent == Init /\ getMode = "agent" /\ HasRunUrl

NextContent ==
    \/ \E message \in UserInputs :
           Len(requests) < MaxContentRuns /\ sendMessage(message)
    \/ \E k \in 1..MaxStreams, chunk \in ContentWireFrames :
           frames < MaxContentFrames /\ onChunk(k, chunk)
    \/ \E k \in 1..MaxStreams : onError(k)
    \/ \E k \in 1..MaxStreams : sendOnComplete(k)

SpecContent == InitAgent /\ [][NextContent]_vars

(***************************************************************************)
(* The tool-call reducer: sends whose streams deliver tool-call frames.    *)
(* The tool calls carry an id (TA, TD) or none (TB, TC); TC has no         *)
(* created_at, and TD's id is the string that is TB's fallback identity.   *)
(***************************************************************************)
TA == [tool_call_id |-> <<"call", 1>>, tool_name |-> "f", created_at |-> 1]
TB == [tool_name |-> "f", created_at |-> 1]
TC == [tool_name |-> "f", created_at |-> 0]
TD == [tool_call_id |-> <<"f", 1>>, tool_name |-> "g", created_at |-> 2]

ToolWireFrames ==
    {[Frame("ToolCallStarted") EXCEPT !.tool = Some(t)] : t \in {TA, TB, TC, TD}}
    \cup {[Frame("ToolCallCompleted") EXCEPT !.tool = Some(Spread(t, [result |-> "r"]))] :
             t \in {TA, TB}}
    \cup {[Frame("ToolCallStarted") EXCEPT !.tools = Some(<<TA, TB>>)],
          [Frame("ToolCallStarted") EXCEPT !.tool = Some(TB), !.tools = Some(<<TD>>)]}

NextTools ==
    \/ \E message \in UserInputs : sendMessage(message)
    \/ \E k \in 1..MaxStreams, chunk \in ToolWireFrames :
           frames < MaxToolFrames /\ onChunk(k, chunk)
    \/ \E k \in 1..MaxStreams : onError(k)
    \/ \E k \in 1..MaxStreams : sendOnComplete(k)
    \/ \E id \in {TA.tool_call_id}, uiSpec \in UISpecs : hydrateToolCallUI(id, uiSpec)

SpecTools == InitAgent /\ [][NextTools]_vars

(***************************************************************************)
(* Session handling: sends whose streams deliver session candidates (the   *)
(* singular, team and reasoning variants) and error frames, and            *)
(* clearMessages between the runs                                          *)
(***************************************************************************)
SessionWireFrames ==
    StartedFrames
    \cup {[Frame(e) EXCEPT !.session_id = 1] :
             e \in {"TeamRunStarted", "ReasoningStarted"}}
    \cup ErrorFrames

NextSessions ==
    \/ \E message \in UserInputs : sendMessage(message)
    \/ \E k \in 1..MaxStreams, chunk \in SessionWireFrames :
           frames < MaxSessionFrames /\ onChunk(k, chunk)
    \/ \E k \in 1..MaxStreams : onError(k)
    \/ \E k \in 1..MaxStreams : sendOnComplete(k)
    \/ clearMessages

SpecSessions == Init /\ [][NextSessions]_vars

(***************************************************************************)
(* The end-to-end exchange: sends of "Hi" whose streams deliver the frames *)
(* of EndToEndScript, in any order and number, and an error frame          *)
(***************************************************************************)
ScriptWireFrames ==
    {EndToEndScript[i] : i \in 1..Len(EndToEndScript)} \cup {Frame("RunError")}

NextEndToEnd ==
    \/ sendMessage(Hi)
    \/ \E k \in 1..MaxStreams, chunk \in ScriptWireFrames :
           frames < MaxScriptFrames /\ onChunk(k, chunk)
    \/ \E k \in 1..MaxStreams : onError(k)
    \/ \E k \in 1..MaxStreams : sendOnComplete(k)

SpecEndToEnd == InitAgent /\ [][NextEndToEnd]_vars

(***************************************************************************)
(* Pending attachments: sends whose streams deliver tool-call frames,      *)
(* payloads attached to the tool call id of TA, tool calls added by the    *)
(* caller, and wholesale resets of the ledger                              *)
(***************************************************************************)
PendingWireFrames ==
    {[Frame("ToolCallStarted") EXCEPT !.tool = Some(TA)],
     [Frame("ToolCallCompleted") EXCEPT !.tool = Some(Spread(TA, [result |-> "r"]))],
     [Frame("ToolCallStarted") EXCEPT !.tool = Some(TB)],
     [Frame("RunContent") EXCEPT !.content = Str(<<"a">>), !.tools = Some(<<TB, TA>>)]}

NextPending ==
    \/ \E message \in UserInputs :
           Len(requests) < MaxPendingRuns /\ sendMessage(message)
    \/ \E k \in 1..MaxStreams, chunk \in PendingWireFrames :
           frames < MaxPendingFrames /\ onChunk(k, chunk)
    \/ \E k \in 1..MaxStreams : onError(k)
    \/ \E k \in 1..MaxStreams : sendOnComplete(k)
    \/ \E uiSpec \in UISpecs : hydrateToolCallUI(TA.tool_call_id, uiSpec)
    \/ addToolCallsToLastMessage(<<TA>>)
    \/ clearMessages
    \/ \E history \in Histories : loadSession(1, history)

SpecPending == InitAgent /\ [][NextPending]_vars

(***************************************************************************)
(* The retry cleanup: sends that follow a failed turn, also when the       *)
(* ledger was replaced by loadSession while the failed run was in flight.  *)
(***************************************************************************)
\* the histories loaded include the ledger convertSessionToMessages returns
\* for a session whose one run has no run_input: the agent message alone
NextRetry ==
    \/ \E message \in UserInputs :
           Len(requests) < MaxRetryRuns /\ sendMessage(message)
    \/ \E k \in 1..MaxStreams,
          chunk \in ErrorFrames
                      \cup {[Frame("RunContent") EXCEPT !.content = Str(<<"a">>)]} :
           frames < MaxRetryFrames /\ onChunk(k, chunk)
    \/ \E k \in 1..MaxStreams : onError(k)
    \/ \E k \in 1..MaxStreams : sendOnComplete(k)
    \/ \E history \in Histories \cup
              {<<[role |-> "agent", content |-> <<"a">>, tool_calls |-> <<>>,
                  streamingError |-> FALSE, created_at |-> Now + 1]>>} :
           loadSession(1, history)

SpecRetry == InitAgent /\ [][NextRetry]_vars

(***************************************************************************)
(* The continued runs: a send that is paused and continued with lists of   *)
(* tool results, with and without a ui_component.                          *)
(***************************************************************************)
NextContinue ==
    \/ \E message \in UserInputs :
           Len(requests) < MaxContinueSends /\ sendMessage(message)
    \/ \E tools \in UNION {[1..n ->
                  {Spread(T1, [result |-> "r", ui_component |-> "ui1"]),
                   Spread(T2, [result |-> "r"])}] : n \in 0..MaxToolResults} :
           continueRun(tools)
    \/ \E k \in 1..MaxStreams,
          chunk \in PausedFrames
                      \cup {[Frame("RunContent") EXCEPT !.content = Str(<<"a">>)]} :
           frames < MaxContinueFrames /\ onChunk(k, chunk)
    \/ \E k \in 1..MaxStreams : onError(k)
    \/ \E k \in 1..MaxStreams : sendOnComplete(k)
    \/ \E k \in 1..MaxStreams : continueOnComplete(k)

SpecContinue == InitAgent /\ [][NextContinue]_vars

(***************************************************************************)
(* The pause handling: sends whose streams deliver RunPaused frames with   *)
(* each of the four tool lists absent, empty or holding one tool.          *)
(***************************************************************************)
PausedWireFrames ==
    LET PausedTool(n) ==
            [tool_call_id |-> <<"call", n>>, tool_name |-> "f", created_at |-> n]
        \* the values of the n-th tool list of a RunPaused frame
        PausedList(n) == {None, Some(<<>>), Some(<<PausedTool(n)>>)}
    IN  {[Frame("RunPaused") EXCEPT
              !.run_id = 1,
              !.tools_awaiting_external_execution = external,
              !.tools_requiring_confirmation = confirmation,
              !.tools_requiring_user_input = input,
              !.tools = generic] :
          external \in PausedList(1), confirmation \in PausedList(2),
          input \in PausedList(3), generic \in PausedList(4)}

NextPaused ==
    \/ \E message \in UserInputs : sendMessage(message)
    \/ \E k \in 1..MaxStreams, chunk \in PausedWireFrames :
           frames < MaxPausedFrames /\ onChunk(k, chunk)
    \/ \E k \in 1..MaxStreams : onError(k)
    \/ \E k \in 1..MaxStreams : sendOnComplete(k)

SpecPaused == InitAgent /\ [][NextPaused]_vars

(***************************************************************************)
(* The session timestamp: toSafeISOString applied to the created_at of a   *)
(* frame.  A JavaScript number n is the pair <<hi, lo>> with               *)
(* n = hi * 10^6 + lo and 0 <= lo < 10^6, so that millisecond values       *)
(* beyond 2^31 are computed exactly; undefined, NaN and the infinities are *)
(* values of their own, of the kinds "undefined", "NaN", "Infinity" and    *)
(* "-Infinity".                                                            *)
(***************************************************************************)
Number(n) == [kind |-> "number", n |-> n]

\* n * 1000
Times1000(n) ==
    <<n[1] * 1000 + ((n[2] * 1000) \div 1000000), (n[2] * 1000) % 1000000>>

\* a < b
Less(a, b) == a[1] < b[1] \/ (a[1] = b[1] /\ a[2] < b[2])

\* 946684800000 and 4102444800000
MIN_TIMESTAMP == <<946684, 800000>>
MAX_TIMESTAMP == <<4102444, 800000>>

\* new Date(ms).toISOString(): the string that denotes the instant ms
toISOString(ms) == [iso |-> ms]

\* toSafeISOString without the validation
toSafeISOStringUnchecked(timestamp, now) ==
    IF timestamp.kind = "number" THEN toISOString(Times1000(timestamp.n))
    ELSE toISOString(now)

\* toSafeISOString, with the reading of Date.now() as an argument
toSafeISOString(timestamp, now) ==
    LET \* timestamp ? ... : ... (undefined, NaN and 0 are falsy)
        truthy == /\ timestamp.kind \notin {"undefined", "NaN"}
                  /\ ~(timestamp.kind = "number" /\ timestamp.n = <<0, 0>>)
        ts == IF truthy
              THEN IF timestamp.kind = "number"
                   THEN Number(Times1000(timestamp.n))
                   ELSE timestamp
              ELSE Number(now)
        invalid == IF ts.kind = "number"
                   THEN Less(ts.n, MIN_TIMESTAMP) \/ Less(MAX_TIMESTAMP, ts.n)
                   ELSE TRUE
    IN  IF invalid THEN toISOString(now) ELSE toISOString(ts.n)

\* the created_at values of frames, in seconds, and the readings of
\* Date.now(), in milliseconds: of a clock that is right, and of clocks set
\* before 2000 and after 2100
toSafeISOStringCall ==
    /\ \E timestamp \in
              {[kind |-> k, n |-> <<0, 0>>] :
                   k \in {"undefined", "NaN", "Infinity", "-Infinity"}}
              \cup {Number(n) : n \in
                   {<<0, 0>>, <<-1, 999999>>, <<0, 1>>,
                    <<946, 684799>>, <<946, 684800>>, <<946, 684801>>,
                    <<1700, 0>>, <<2147, 483648>>,
                    <<4102, 444799>>, <<4102, 444800>>, <<4102, 444801>>,
                    <<5000, 0>>, <<-5000, 0>>}},
          now \in {<<1700000, 1>>, <<1762225, 200000>>, <<946684, 800000>>,
                   <<2000000, 0>>, <<1, 0>>, <<5000000, 0>>} :
           calc' = [fn |-> "toSafeISOString", args |-> <<timestamp, now>>,
                    value |-> toSafeISOString(timestamp, now)]
    /\ UNCHANGED clientVars

NextTimestamp == toSafeISOStringCall

SpecTimestamp == Init /\ [][NextTimestamp]_vars

(***************************************************************************)
(* SessionManager: the conversion of the run records of a session into     *)
(* messages.  A run record holds created_at (the seconds its date string   *)
(* denotes, 0 when absent), run_input (an optional string), tools and      *)
(* reasoning_messages (optional lists of objects) and content.             *)
(***************************************************************************)
\* x ?? fallback, for the field key of the object obj
OrElse(obj, key, fallback) == IF Has(obj, key) THEN obj[key] ELSE fallback

\* the tool call built from an entry of run.tools or from a tool entry of
\* run.reasoning_messages
HydratedToolCall(toolObj, createdAt) ==
    [role |-> "tool",
     content |-> OrElse(toolObj, "content", <<>>),
     tool_call_id |-> OrElse(toolObj, "tool_call_id", <<"", 0>>),
     tool_name |-> OrElse(toolObj, "tool_name", ""),
     tool_args |-> OrElse(toolObj, "tool_args", <<>>),
     tool_call_error |-> OrElse(toolObj, "tool_call_error", FALSE),
     metrics |-> OrElse(toolObj, "metrics", [time |-> 0]),
     created_at |-> createdAt]

\* the first loop: every entry of run.tools, stamped with the run's time
RECURSIVE ToolsOfRun(_, _)
ToolsOfRun(tools, timestamp) ==
    IF tools = <<>> THEN <<>>
    ELSE <<HydratedToolCall(Head(tools), timestamp)>>
             \o ToolsOfRun(Tail(tools), timestamp)

\* the second loop: the entries of run.reasoning_messages whose role is
\* 'tool', stamped with their own created_at when they have one
RECURSIVE ToolsOfReasoning(_, _)
ToolsOfReasoning(msgs, timestamp) ==
    IF msgs = <<>> THEN <<>>
    ELSE (IF Has(Head(msgs), "role") /\ Head(msgs).role = "tool"
          THEN <<HydratedToolCall(Head(msgs),
                                  OrElse(Head(msgs), "created_at", timestamp))>>
          ELSE <<>>)
         \o ToolsOfReasoning(Tail(msgs), timestamp)

\* the messages one run contributes (tool_calls undefined is the empty list,
\* streamingError undefined is FALSE)
MessagesOfRun(run) ==
    LET \* run.created_at ? new Date(run.created_at).getTime() / 1000 : now
        timestamp == IF run.created_at # 0 THEN run.created_at ELSE Now
        contentStr ==
            IF run.content.kind = "string" THEN run.content.s
            ELSE IF run.content.kind = "object" THEN JsonStringify(run.content)
            ELSE <<>>
        toolCalls ==
            (IF run.tools # None THEN ToolsOfRun(run.tools[1], timestamp)
             ELSE <<>>)
            \o (IF run.reasoning_messages # None
                THEN ToolsOfReasoning(run.reasoning_messages[1], timestamp)
                ELSE <<>>)
    IN  (IF run.run_input # None /\ run.run_input[1] # <<>>
         THEN <<[role |-> "user", content |-> run.run_input[1],
                 tool_calls |-> <<>>, streamingError |-> FALSE,
                 created_at |-> timestamp]>>
         ELSE <<>>)
        \o <<[role |-> "agent", content |-> contentStr,
               tool_calls |-> toolCalls, streamingError |-> FALSE,
               created_at |-> timestamp + 1]>>

\* convertRunsToMessages converting the first run only
convertFirstRunOnly(runs) ==
    IF runs = <<>> THEN <<>> ELSE MessagesOfRun(Head(runs))

RECURSIVE convertRunsToMessages(_)
convertRunsToMessages(runs) ==
    IF runs = <<>> THEN <<>>
    ELSE MessagesOfRun(Head(runs)) \o convertRunsToMessages(Tail(runs))

convertSessionToMessages(runs) == convertRunsToMessages(runs)

\* the objects of the server's run records: two tool executions, the same
\* two as tool messages of the reasoning, and an assistant message
RunRecords ==
    LET RunToolX == [tool_call_id |-> <<"call", 1>>, tool_name |-> "f"]
        RunToolY == [tool_call_id |-> <<"call", 2>>, tool_name |-> "g"]
        ReasoningToolX == Spread(RunToolX, [role |-> "tool", created_at |-> 7])
        ReasoningToolY == Spread(RunToolY, [role |-> "tool"])
        ReasoningText == [role |-> "assistant", content |-> <<"t">>]
    IN  {[created_at |-> created, run_input |-> input, tools |-> tools,
          reasoning_messages |-> reasoning, content |-> Str(<<"a">>)] :
            created \in {0, 5},
            input \in {None, Some(<<>>), Some(<<"h">>)},
            tools \in {None, Some(<<RunToolX>>), Some(<<RunToolX, RunToolY>>)},
            reasoning \in {None, Some(<<ReasoningText, ReasoningToolX>>),
                           Some(<<ReasoningToolY>>)}}

\* one conversion per behaviour: the conversion keeps no state from one
\* call to the next
convertSessionToMessagesCall ==
    /\ calc = NoCall
    /\ \E runs \in UNION {[1..n -> RunRecords] : n \in 0..MaxRunRecords} :
           calc' = [fn |-> "convertSessionToMessages", args |-> <<runs>>,
                    value |-> convertSessionToMessages(runs)]
    /\ UNCHANGED clientVars

NextHydrator == convertSessionToMessagesCall

SpecHydrator == InitAgent /\ [][NextHydrator]_vars

(***************************************************************************)
(* StreamDecoder: the decoder streamResponse feeds the response body to,   *)
(* piece by piece.  It keeps the text of the value it is accumulating, the *)
(* nesting depth and whether it is inside a string literal, across calls,  *)
(* and yields a frame when a top-level value is complete.  A frame is      *)
(* identified with its serialised text; "e1" and "e2" are the two bytes of *)
(* one character.                                                          *)
(***************************************************************************)
NewDecoder ==
    [buffer |-> <<>>, depth |-> 0, inString |-> FALSE, escaped |-> FALSE,
     out |-> <<>>]

\* the decoder after a piece of the body, one character after the other
RECURSIVE DecoderAfter(_, _)
DecoderAfter(d, chunk) ==
    LET c == Head(chunk)
        step ==
            IF d.depth = 0
            THEN IF c = "{"
                 THEN [d EXCEPT !.buffer = <<c>>, !.depth = 1]
                 ELSE d
            ELSE IF d.inString
            THEN IF d.escaped
                 THEN [d EXCEPT !.buffer = Append(@, c), !.escaped = FALSE]
                 ELSE IF c = "\\"
                 THEN [d EXCEPT !.buffer = Append(@, c), !.escaped = TRUE]
                 ELSE IF c = "\""
                 THEN [d EXCEPT !.buffer = Append(@, c), !.inString = FALSE]
                 ELSE [d EXCEPT !.buffer = Append(@, c)]
            ELSE IF c = "\""
            THEN [d EXCEPT !.buffer = Append(@, c), !.inString = TRUE]
            ELSE IF c = "{"
            THEN [d EXCEPT !.buffer = Append(@, c), !.depth = @ + 1]
            ELSE IF c = "}"
            THEN IF d.depth = 1
                 THEN [d EXCEPT !.buffer = <<>>, !.depth = 0,
                                !.out = Append(@, Append(d.buffer, c))]
                 ELSE [d EXCEPT !.buffer = Append(@, c), !.depth = @ - 1]
            ELSE [d EXCEPT !.buffer = Append(@, c)]
    IN  IF chunk = <<>> THEN d ELSE DecoderAfter(step, Tail(chunk))

\* feed that forgets the unfinished value of the previous call
feedForgetful(d, chunk) ==
    DecoderAfter([NewDecoder EXCEPT !.out = d.out], chunk)

\* feed(chunk): the frames yielded so far are d.out
feed(d, chunk) == DecoderAfter(d, chunk)

RECURSIVE Serialised(_, _)
Serialised(seq, sep) ==
    IF seq = <<>> THEN <<>>
    ELSE Head(seq) \o sep \o Serialised(Tail(seq), sep)

\* streamResponse starts to read a response body.  The serialised frames:
\* an empty object, a string that holds a brace, a nested object, a string
\* that holds an escaped quote, a two-byte character; what separates the
\* frames of a body: nothing, or a line feed
startDecoding ==
    /\ calc = NoCall
    /\ \E seq \in UNION {[1..n ->
                 {<<"{", "}">>,
                  <<"{", "\"", "}", "\"", "}">>,
                  <<"{", "{", "}", "}">>,
                  <<"{", "\"", "\\", "\"", "\"", "}">>,
                  <<"{", "\"", "e1", "e2", "\"", "}">>}] : n \in 0..MaxWireFrames},
          sep \in {<<>>, <<"\n">>} :
           calc' = [fn |-> "feed",
                    args |-> [sent |-> seq, body |-> Serialised(seq, sep),
                              rest |-> Serialised(seq, sep), pieces |-> 0],
                    value |-> NewDecoder]
    /\ UNCHANGED clientVars

\* the transport delivers the next n characters of the body
feedChunk ==
    /\ calc.fn = "feed"
    /\ \E n \in 1..Len(calc.args.rest) :
           calc' = [calc EXCEPT
                       !.args.rest = SubSeq(@, n + 1, Len(@)),
                       !.args.pieces = @ + 1,
                       !.value = feed(@, SubSeq(calc.args.rest, 1, n))]
    /\ UNCHANGED clientVars

NextDecoder == startDecoding \/ feedChunk

SpecDecoder == InitAgent /\ [][NextDecoder]_vars

(***************************************************************************)
(* The reducer's remaining fields: one send whose stream delivers          *)
(* reasoning frames, RunContent frames and RunCompleted frames that carry  *)
(* reasoning steps, generated UI, media and tool calls with and without    *)
(* an id.  A reasoning step is the string that names it.                   *)
(***************************************************************************)
ReducerWireFrames ==
    LET Steps(list) == [extra_data |-> [reasoning_steps |-> list]]
        Completed == [Frame("RunCompleted") EXCEPT !.content = Str(<<"a">>)]
    IN  {Frame("ReasoningStep"), Frame("ReasoningCompleted"), Completed}
        \cup {Spread(Frame("ReasoningStep"), Steps(list)) :
                 list \in {<<>>, <<"s1">>, <<"s1", "s2">>}}
        \cup {Spread(Frame("ReasoningCompleted"), Steps(list)) :
                 list \in {<<>>, <<"s2">>}}
        \cup {[Frame("RunContent") EXCEPT !.content = Str(<<"b">>)],
              Spread([Frame("RunContent") EXCEPT !.content = Str(<<"a">>),
                                                 !.tool = Some(T1)],
                     [extra_data |-> [generated_ui |->
                                          <<[tool_call_id |-> T1.tool_call_id]>>],
                      response_audio |-> [transcript |-> <<"t">>]])}
        \cup {[Completed EXCEPT !.tool = Some(T1)],
              [Completed EXCEPT !.tool = Some([tool_name |-> "f"])],
              [Completed EXCEPT !.created_at = 5],
              Spread(Completed, Steps(<<"s1">>)),
              Spread(Completed, [images |-> <<"i">>,
                                 response_audio |-> [transcript |-> <<"t">>]])}

NextReducer ==
    \/ \E message \in UserInputs :
           Len(requests) < MaxReducerRuns /\ sendMessage(message)
    \/ \E k \in 1..MaxStreams, chunk \in ReducerWireFrames :
           frames < MaxReducerFrames /\ onChunk(k, chunk)
    \/ \E k \in 1..MaxStreams : onError(k)
    \/ \E k \in 1..MaxStreams : sendOnComplete(k)

SpecReducer == InitAgent /\ [][NextReducer]_vars

(***************************************************************************)
(* Termination of the runs: sends and continued runs whose streams deliver *)
(* pause, error and content frames, on a transport that ends every call    *)
(* it has started: a stream that stays open is eventually closed by its    *)
(* onComplete or its onError callback.                                     *)
(***************************************************************************)
NextLive ==
    \/ \E message \in UserInputs :
           Len(requests) < MaxLiveRuns /\ sendMessage(message)
    \/ Len(requests) < MaxLiveRuns /\ continueRun(<<>>)
    \/ \E k \in 1..MaxStreams,
          chunk \in ErrorFrames \cup ContentFrames
                      \cup {[Frame("RunPaused") EXCEPT !.run_id = 1]} :
           frames < MaxLiveFrames /\ onChunk(k, chunk)
    \/ \E k \in 1..MaxStreams : onError(k)
    \/ \E k \in 1..MaxStreams : sendOnComplete(k)
    \/ \E k \in 1..MaxStreams : continueOnComplete(k)

SpecLive ==
    /\ InitAgent
    /\ [][NextLive]_vars
    /\ \A k \in 1..MaxStreams :
           WF_vars(onError(k) \/ sendOnComplete(k) \/ continueOnComplete(k))

(***************************************************************************)
(* Properties                                                              *)
(***************************************************************************)
Closing == lastOp.op \in {"onComplete", "onError"}
LastMessage == messages[Len(messages)]

\* C1: at most one stream is in flight: the streamResponse calls that have
\* started and have neither completed nor failed never number more than one.
C1_SingleFlight == Cardinality(OpenStreams) <= 1

\* C2: isStreaming and isPaused are never both true.
C2_StreamingExcludesPaused == ~(isStreaming /\ isPaused)

\* C3: pausedRunId is set if and only if isPaused is true.
C3_PausedRunIdIffPaused == Truthy(pausedRunId) <=> isPaused

\* C4: a sendMessage called while isStreaming fails with the
\* already-streaming error, and one called with no agent or team selected
\* fails too; either way the ledger, the RunState, the known sessions and the
\* pending attachments are as before, no request is issued and no
\* notification is emitted.
C4_RejectedSendChangesNothing ==
    [][(lastOp'.op = "sendMessage" /\ (isStreaming \/ ~HasRunUrl)) =>
          /\ isStreaming => lastOp'.result = "Already streaming a message"
          /\ lastOp'.result # "ok"
          /\ emitted' = <<>>
          /\ UNCHANGED <<messages, runState, sessions, pendingUISpecs, requests,
                         streams, config, lastContent>>]_vars

\* a send was rejected as already streaming, with a ledger and a pending
\* attachment at stake
C4_Witness ==
    /\ lastOp.op = "sendMessage"
    /\ lastOp.result = "Already streaming a message"
    /\ isStreaming
    /\ Len(messages) > 0
    /\ pendingUISpecs # {}

\* C5: a sendMessage called while the client is paused is rejected: no
\* message is appended, isStreaming stays false and no request is issued.
C5_SendWhilePausedRejected ==
    [][(lastOp'.op = "sendMessage" /\ isPaused /\ ~isStreaming) =>
          /\ messages' = messages
          /\ ~isStreaming'
          /\ requests' = requests]_vars

\* C6: continueRun fails with no side effect when no run is paused and when
\* the mode is team, in team mode also when a run is paused.
C6_RejectedContinueChangesNothing ==
    [][(lastOp'.op = "continueRun" /\ (~isPaused \/ getMode = "team")) =>
          /\ lastOp'.result # "ok"
          /\ emitted' = <<>>
          /\ UNCHANGED <<messages, runState, sessions, pendingUISpecs, requests,
                         streams, config, lastContent>>]_vars

\* continueRun was refused in team mode while a run is paused
C6_Witness ==
    /\ lastOp.op = "continueRun"
    /\ lastOp.result = "HITL is not supported for teams"
    /\ getMode = "team"
    /\ isPaused /\ Truthy(pausedRunId)

\* C7: while the content-bearing frames of a send are RunContent frames with
\* cumulative string contents, the agent message's content equals the content
\* of the latest frame, after every frame and after the stream has ended.
C7_CumulativeRun(st) == st.kind = "send" /\ st.hasContent /\ st.cumulative
C7_ContentAccumulation ==
    /\ \A k \in OpenStreams :
           C7_CumulativeRun(streams[k]) =>
               Len(messages) > 0 /\ LastMessage.content = streams[k].last
    /\ (Closing /\ C7_CumulativeRun(lastOp.stream)) =>
           Len(messages) > 0 /\ LastMessage.content = lastOp.stream.last

\* three cumulative RunContent frames of one send, the last one extending a
\* non-empty content, have been folded
C7_Witness ==
    /\ Len(requests) = 1 /\ frames = 3
    /\ \E k \in OpenStreams :
           /\ C7_CumulativeRun(streams[k])
           /\ streams[k].last = <<"a", "b">>
           /\ lastOp.op = "onChunk" /\ lastOp.chunk.content = Str(<<"a", "b">>)
           /\ lastContent = <<"a", "b">>

\* C8: applying a ToolCall frame a second time leaves the ledger as the first
\* application left it.
C8_ToolCallMergeIdempotent ==
    [][(/\ lastOp.op = "onChunk"
        /\ lastOp.chunk.event \in ToolCallEvents
        /\ lastOp'.op = "onChunk"
        /\ lastOp'.chunk = lastOp.chunk) =>
          messages' = messages]_vars

\* a RunPaused frame that carries exactly one tool list, holding one tool
C9_OneTool(chunk, tool) ==
    /\ chunk.event = "RunPaused"
    /\ \E f \in {"tools_awaiting_external_execution",
                 "tools_requiring_confirmation",
                 "tools_requiring_user_input", "tools"} :
           /\ chunk[f] = Some(<<tool>>)
           /\ \A g \in {"tools_awaiting_external_execution",
                        "tools_requiring_confirmation",
                        "tools_requiring_user_input", "tools"} \ {f} :
                  chunk[g] = None

\* C9: a RunPaused frame with one tool during a send sets isPaused,
\* toolsAwaitingExecution = [tool] and pausedRunId = the frame's run id; a
\* continueRun issued with no other stream open, whose stream delivers a
\* RunCompleted frame and no RunPaused frame and completes, ends with
\* isPaused = false, isStreaming = false and pausedRunId undefined.
C9_PauseResumeRoundTrip ==
    [][/\ \A tool \in {T1, T2} :
              (/\ lastOp'.op = "onChunk"
               /\ lastOp'.stream.kind = "send"
               /\ C9_OneTool(lastOp'.chunk, tool)) =>
                  /\ isPaused'
                  /\ toolsAwaitingExecution' = Some(<<tool>>)
                  /\ pausedRunId' = lastOp'.chunk.run_id
       /\ (/\ lastOp'.op = "onComplete"
           /\ lastOp'.stream.kind = "continue"
           /\ lastOp'.stream.alone
           /\ lastOp'.stream.completed
           /\ ~lastOp'.stream.paused) =>
              /\ ~isPaused'
              /\ ~isStreaming'
              /\ pausedRunId' = 0]_vars

\* the continued run of a paused send has received RunCompleted and completed
C9_Witness ==
    /\ lastOp.op = "onComplete"
    /\ lastOp.stream.kind = "continue"
    /\ lastOp.stream.alone /\ lastOp.stream.completed /\ ~lastOp.stream.paused
    /\ Len(requests) = 2 /\ requests[2].run_id = 1
    /\ ~isPaused /\ ~isStreaming /\ pausedRunId = 0

\* C10: when a send's stream carried a RunStarted frame that introduced a
\* session id and later an error frame, the session id is not among the known
\* sessions once the call has ended.
C10_SessionRollback ==
    (/\ Closing
     /\ lastOp.stream.kind = "send"
     /\ lastOp.stream.introduced # 0
     /\ lastOp.stream.errorAfter) =>
        lastOp.stream.introduced \notin KnownSessionIds(sessions)

\* the step is the handling of an error of stream k: an error frame or a
\* transport failure
ErrorStepOf(k) ==
    /\ Delivering(k)
    /\ \/ lastOp'.op = "onError" /\ lastOp'.stream = streams[k]
       \/ /\ lastOp'.op = "onChunk"
          /\ lastOp'.chunk.event \in ErrorEvents
          /\ lastOp'.stream = streams'[k]
          /\ \A j \in 1..MaxStreams : j # k => streams'[j] = streams[j]

\* C11: the handling of an error of a run removes no session that was known
\* before the run started (stated for a run that started with no other
\* stream open).
C11_ErrorKeepsEarlierSessions ==
    [][\A k \in 1..MaxStreams :
          (ErrorStepOf(k) /\ streams[k].alone) =>
              (streams[k].before \cap KnownSessionIds(sessions))
                  \subseteq KnownSessionIds(sessions')]_vars

\* C12: the known sessions never hold two entries with the same session_id.
C12_SessionIdsDistinct ==
    \A i, j \in 1..Len(sessions) :
        sessions[i].session_id = sessions[j].session_id => i = j

\* the first frame of a second run, sent with no session id, is a session
\* candidate carrying the id of a session that is already known
C12_Witness ==
    /\ lastOp.op = "onChunk"
    /\ lastOp.chunk.event \in StartedEvents
    /\ lastOp.chunk.session_id = 1
    /\ 1 \in lastOp.stream.before
    /\ Len(requests) = 2 /\ requests[2].session_id.kind = "empty"
    /\ frames = 2
    /\ Len(sessions) = 1

\* C13: a session candidate with session_id s processed in a send makes s the
\* current session id, and the end of the call leaves it so; a send carries
\* the current session id as session_id, and the empty string when no
\* session id is assigned.
C13_SessionIdCommit ==
    [][/\ (/\ lastOp'.op = "onChunk"
           /\ lastOp'.stream.kind = "send"
           /\ lastOp'.chunk.event \in StartedEvents
           /\ Truthy(lastOp'.chunk.session_id)) =>
              config'.sessionId = lastOp'.chunk.session_id
       /\ lastOp'.op \in {"onComplete", "onError"} =>
              config'.sessionId = config.sessionId
       /\ (lastOp'.op = "sendMessage" /\ lastOp'.result = "ok") =>
              /\ Len(requests') = Len(requests) + 1
              /\ Truthy(config.sessionId) =>
                     requests'[Len(requests')].session_id =
                         [kind |-> "id", id |-> config.sessionId]
              /\ ~Truthy(config.sessionId) =>
                     requests'[Len(requests')].session_id =
                         [kind |-> "empty", id |-> 0]]_vars

\* a first send carried the empty string, its stream committed session id 2
\* with its only frame and completed, and the send that followed carried 2
C13_Witness ==
    /\ lastOp.op = "sendMessage" /\ lastOp.result = "ok"
    /\ Len(requests) = 2 /\ frames = 1
    /\ KnownSessionIds(sessions) = {2}
    /\ requests[1].session_id = [kind |-> "empty", id |-> 0]
    /\ requests[2].session_id = [kind |-> "id", id |-> 2]
    /\ config.sessionId = 2

\* the first send of a client, of "Hi", has delivered exactly the frames of
\* EndToEndScript, in order, and has completed
C14_Exchanged ==
    /\ lastOp.op = "onComplete"
    /\ lastOp.stream.kind = "send"
    /\ lastOp.stream.msg = Hi
    /\ lastOp.stream.script = Len(EndToEndScript)
    /\ Len(requests) = 1

\* C14: on a fresh client, the send of "Hi" answered by RunStarted{s1},
\* RunContent "Hello", RunContent "Hello there", RunCompleted "Hello there"
\* and the end of the stream leaves exactly the user message "Hi" and the
\* agent message "Hello there" with streamingError false, the single session
\* s1 named "Hi", and isStreaming false.
C14_EndToEnd ==
    C14_Exchanged =>
        /\ Len(messages) = 2
        /\ messages[1] =
               [role |-> "user", content |-> Hi, tool_calls |-> <<>>,
                streamingError |-> FALSE, created_at |-> Now]
        /\ messages[2].role = "agent"
        /\ messages[2].content = HelloThere
        /\ messages[2].tool_calls = <<>>
        /\ ~messages[2].streamingError
        /\ sessions = <<[session_id |-> 1, session_name |-> Hi]>>
        /\ ~isStreaming

\* the exchange has taken place: four frames were delivered and the ledger
\* holds the answer
C14_Witness ==
    /\ C14_Exchanged
    /\ frames = 4
    /\ Len(messages) = 2 /\ messages[2].content = HelloThere

\* the tool call ids the ledger holds
LedgerIds(msgs) ==
    UNION {{msgs[i].tool_calls[j].tool_call_id :
               j \in {l \in 1..Len(msgs[i].tool_calls) :
                          HasId(msgs[i].tool_calls[l])}} :
           i \in 1..Len(msgs)}

\* the ledger the frame leaves when no payload is pending
C15_FrameFirst(chunk) ==
    IF Len(messages) = 0 THEN messages
    ELSE ReplaceLast(messages,
             processChunk(chunk, messages[Len(messages)], lastContent).message)

\* C15: when a payload p is pending for tool call id t and a frame puts the
\* tool call t into the ledger, the ledger after the frame is the ledger that
\* processing the frame first and attaching p afterwards gives.
C15_AttachOrderIndependent ==
    [][\A pr \in pendingUISpecs :
          (/\ lastOp'.op = "onChunk"
           /\ pr[1] \notin LedgerIds(messages)
           /\ pr[1] \in LedgerIds(messages')) =>
              messages' = HydratedMessages(C15_FrameFirst(lastOp'.chunk),
                                           pr[1], pr[2])]_vars

\* the first frame of a behaviour introduced the tool call of TA, and the
\* payload attached before it is on the tool call
C15_Witness ==
    /\ lastOp.op = "onChunk"
    /\ frames = 1
    /\ Len(messages) = 2
    /\ Len(messages[2].tool_calls) = 1
    /\ messages[2].tool_calls[1] = Spread(TA, [ui_component |-> "ui2"])
    /\ pendingUISpecs = {}

\* C16: after a frame or an addToolCallsToLastMessage that puts a tool call
\* with id t into the ledger, no payload is pending for t.
C16_PendingConsumed ==
    [][\A t \in LedgerIds(messages') \ LedgerIds(messages) :
          lastOp'.op \in {"onChunk", "addToolCallsToLastMessage"} =>
              t \notin PendingIds(pendingUISpecs')]_vars

\* C17: after clearMessages and after loadSession no payload is pending.
C17_ResetClearsPending ==
    [][lastOp'.op \in {"clearMessages", "loadSession"} =>
          pendingUISpecs' = {}]_vars

\* C18: once an error frame or a transport failure of a run has been handled,
\* isStreaming is false, and isPaused is false when the run was paused or is
\* a continued run.
C18_ErrorLeavesRunStateConsistent ==
    [][\A k \in 1..MaxStreams :
          (ErrorStepOf(k) /\ OpenStreams = {k}) =>
              /\ ~isStreaming'
              /\ (streams[k].kind = "continue" \/ streams[k].paused) =>
                     ~isPaused']_vars

\* C19: an error frame or a transport failure of a run flags the last message
\* and emits the error notification, and a call whose run met an error frame
\* or a transport failure ends as rejected.
C19_ErrorRejectsCall ==
    [][/\ \A k \in 1..MaxStreams :
              (ErrorStepOf(k) /\ OpenStreams = {k}) =>
                  /\ Len(messages') > 0
                  /\ messages'[Len(messages')].streamingError
                  /\ \E i \in 1..Len(emitted') : emitted'[i] = "message:error"
       /\ (/\ lastOp'.op \in {"onComplete", "onError"}
           /\ (lastOp'.op = "onError" \/ lastOp'.stream.errored)) =>
              lastOp'.result = "rejected"]_vars

\* what a terminal frame freezes of the ledger: the content of the messages
\* and their tool calls, ui_component apart
C20_Frozen(msgs) ==
    [i \in 1..Len(msgs) |->
        [content |-> msgs[i].content,
         tool_calls |->
             [j \in 1..Len(msgs[i].tool_calls) |->
                 [f \in (DOMAIN msgs[i].tool_calls[j]) \ {"ui_component"} |->
                     msgs[i].tool_calls[j][f]]]]]

\* C20: a frame delivered by a stream that has already delivered a
\* RunCompleted or an error frame changes no content and no tool call of the
\* ledger, ui_component apart.
C20_TerminalFrameFreezesMessages ==
    [][\A k \in 1..MaxStreams :
          (/\ OpenStreams = {k}
           /\ streams[k].completed \/ streams[k].errored
           /\ lastOp'.op = "onChunk") =>
              C20_Frozen(messages') = C20_Frozen(messages)]_vars

\* C21: an accepted sendMessage whose ledger ends with an agent message
\* flagged streamingError removes that message and the user message before
\* it and then appends the user message and the placeholder, so that the
\* ledger keeps its length; every other accepted sendMessage removes nothing
\* and appends the user message and the empty, unflagged placeholder.
C21_RetryCleanup ==
    [][(lastOp'.op = "sendMessage" /\ lastOp'.result = "ok"
            /\ requests' # requests) =>
          \E message \in UserInputs :
              IF /\ Len(messages) > 0
                 /\ LastMessage.role = "agent"
                 /\ LastMessage.streamingError
              THEN /\ Len(messages) >= 2
                   /\ messages[Len(messages) - 1].role = "user"
                   /\ messages' = SubSeq(messages, 1, Len(messages) - 2)
                                      \o <<UserMessage(message), PlaceholderMessage>>
              ELSE messages' = messages
                                   \o <<UserMessage(message), PlaceholderMessage>>]_vars

\* a step of the continued run of stream k: one of its frames, its failure
\* or its completion
C22_StepOfContinue(k) ==
    /\ streams[k].open /\ streams[k].kind = "continue"
    /\ \/ lastOp'.op = "onChunk" /\ lastOp'.stream = streams'[k]
                                 /\ frames' = frames + 1
       \/ lastOp'.op \in {"onError", "onComplete"} /\ lastOp'.stream = streams[k]
                                                   /\ ~streams'[k].open
    /\ \A j \in (1..MaxStreams) \ {k} : streams'[j] = streams[j]

\* C22: an accepted continueRun leaves the ledger as it is, and every frame,
\* failure and completion of a continued run keeps the length of the ledger
\* and every message but the last: the run is folded into the message that
\* is last in the ledger.
C22_ContinueAppendsNothing ==
    [][/\ (lastOp'.op = "continueRun" /\ lastOp'.result = "ok"
               /\ requests' # requests) => messages' = messages
       /\ \A k \in 1..MaxStreams :
              C22_StepOfContinue(k) =>
                  /\ Len(messages') = Len(messages)
                  /\ \A i \in 1..(Len(messages) - 1) :
                         messages'[i] = messages[i]]_vars

\* a RunContent frame of a continued run has been folded into the agent
\* message of the send that was paused
C22_Witness ==
    /\ lastOp.op = "onChunk"
    /\ lastOp.stream.kind = "continue"
    /\ lastOp.chunk.event = "RunContent"
    /\ Len(requests) = 2
    /\ Len(messages) = 2
    /\ messages[2].role = "agent"
    /\ messages[2].content = <<"a">>

\* C23: no tool a continue request transmits has a ui_component field, and
\* the tools an accepted continueRun transmits are the tools it was given,
\* in the same order, each with ui_component removed and every other field
\* as given.
C23_ToolsSentWithoutUI ==
    [][/\ \A r \in 1..Len(requests') : \A i \in 1..Len(requests'[r].tools) :
              "ui_component" \notin DOMAIN requests'[r].tools[i]
       /\ (lastOp'.op = "continueRun" /\ lastOp'.result = "ok"
               /\ requests' # requests) =>
              LET given == lastOp'.tools
                  sent == requests'[Len(requests')].tools
              IN  /\ Len(sent) = Len(given)
                  /\ \A i \in 1..Len(given) :
                         /\ DOMAIN sent[i] = (DOMAIN given[i]) \ {"ui_component"}
                         /\ \A f \in DOMAIN sent[i] : sent[i][f] = given[i][f]]_vars

\* a continueRun was given two tool results, the first with a ui_component
\* and the second without one, and has transmitted both
C23_Witness ==
    /\ lastOp.op = "continueRun" /\ lastOp.result = "ok"
    /\ Len(lastOp.tools) = 2
    /\ "ui_component" \in DOMAIN lastOp.tools[1]
    /\ lastOp.tools[1].tool_call_id # lastOp.tools[2].tool_call_id
    /\ Len(requests) = 2
    /\ Len(requests[2].tools) = 2
    /\ requests[2].tools[1].tool_call_id = lastOp.tools[1].tool_call_id

\* the first non-empty list among the four tool lists of a frame, in the
\* order externally awaited, confirmation, user input, generic; empty when
\* every list is absent or empty
C24_FirstNonEmpty(chunk) ==
    LET lists == <<chunk.tools_awaiting_external_execution,
                   chunk.tools_requiring_confirmation,
                   chunk.tools_requiring_user_input,
                   chunk.tools>>
        filled == {n \in 1..4 : lists[n] # None /\ lists[n][1] # <<>>}
    IN  IF filled = {} THEN <<>>
        ELSE lists[CHOOSE n \in filled : \A m \in filled : n <= m][1]

\* C24: a RunPaused frame sets toolsAwaitingExecution to the first non-empty
\* of its four tool lists, sets the paused run id to the frame's run id,
\* emits the paused notification and leaves the ledger unchanged.
C24_PausedToolsFirstNonEmpty ==
    [][(lastOp'.op = "onChunk" /\ lastOp'.chunk.event = "RunPaused"
            /\ frames' = frames + 1) =>
          /\ toolsAwaitingExecution' = Some(C24_FirstNonEmpty(lastOp'.chunk))
          /\ pausedRunId' = lastOp'.chunk.run_id
          /\ \E i \in 1..Len(emitted') : emitted'[i] = "run:paused"
          /\ messages' = messages]_vars

\* 2000-01-01 and 2100-01-01 in unix seconds
C25_MinSeconds == <<946, 684800>>
C25_MaxSeconds == <<4102, 444800>>

C25_InRange(timestamp) ==
    /\ timestamp.kind = "number"
    /\ ~Less(timestamp.n, C25_MinSeconds)
    /\ ~Less(C25_MaxSeconds, timestamp.n)

\* C25: the session timestamp derived from a created_at value is created_at
\* when it lies within [2000-01-01, 2100-01-01] and the current time
\* otherwise (negative, too large, absent or non-finite); it is a date
\* outside that range only if the current time is.
C25_TimestampClamped ==
    calc.fn = "toSafeISOString" =>
        LET timestamp == calc.args[1]
            now == calc.args[2]
        IN  /\ calc.value = IF C25_InRange(timestamp)
                            THEN toISOString(Times1000(timestamp.n))
                            ELSE toISOString(now)
            /\ \/ calc.value = toISOString(now)
               \/ /\ ~Less(calc.value.iso, Times1000(C25_MinSeconds))
                  /\ ~Less(Times1000(C25_MaxSeconds), calc.value.iso)

\* created_at = 5000000000 has been converted with a clock that is right,
\* and the timestamp is the current time
C25_Witness ==
    /\ calc.fn = "toSafeISOString"
    /\ calc.args[1] = Number(<<5000, 0>>)
    /\ calc.args[2] = <<1700000, 1>>
    /\ calc.value = toISOString(<<1700000, 1>>)

\* the record carries a user input: run_input is present and not empty
C26_HasInput(run) == run.run_input # None /\ run.run_input[1] # <<>>

\* the number of messages the records before the i-th one account for
RECURSIVE C26_Before(_, _)
C26_Before(runs, i) ==
    IF i = 1 THEN 0
    ELSE C26_Before(runs, i - 1)
             + (IF C26_HasInput(runs[i - 1]) THEN 2 ELSE 1)

\* C26: convert emits, per run record and in record order, a user message
\* (only when the record carries a run_input) immediately followed by one
\* agent message whose created_at is one second after the user message's;
\* the output has as many messages as there are records plus records with a
\* run_input.
C26_HydrationOrder ==
    calc.fn = "convertSessionToMessages" =>
        LET runs == calc.args[1]
            out == calc.value
        IN  /\ Len(out) = Len(runs)
                   + Cardinality({i \in 1..Len(runs) : C26_HasInput(runs[i])})
            /\ \A i \in 1..Len(runs) :
                   LET at == C26_Before(runs, i) + 1
                   IN  IF C26_HasInput(runs[i])
                       THEN /\ out[at].role = "user"
                            /\ out[at].content = runs[i].run_input[1]
                            /\ out[at + 1].role = "agent"
                            /\ out[at + 1].created_at = out[at].created_at + 1
                       ELSE out[at].role = "agent"

\* two records have been converted, the first without and the second with a
\* run_input: an agent message, then a user message and its agent message
C26_Witness ==
    /\ calc.fn = "convertSessionToMessages"
    /\ Len(calc.args[1]) = 2
    /\ ~C26_HasInput(calc.args[1][1])
    /\ C26_HasInput(calc.args[1][2])
    /\ Len(calc.value) = 3
    /\ calc.value[2].role = "user"
    /\ calc.value[3].created_at = calc.value[2].created_at + 1

\* C27: no two tool calls of an agent message that convert produces have the
\* same tool_call_id, also when a tool call is in the record's tools and in
\* its reasoning messages.
C27_HydratedToolsDistinct ==
    calc.fn = "convertSessionToMessages" =>
        \A m \in 1..Len(calc.value) :
            \A i, j \in 1..Len(calc.value[m].tool_calls) :
                calc.value[m].tool_calls[i].tool_call_id
                    = calc.value[m].tool_calls[j].tool_call_id => i = j

\* C28: when the whole serialised form of a frame sequence has been fed to
\* the decoder in pieces, whatever the offsets of the cuts, the frames it
\* has yielded are the frames it yields when fed the whole body at once,
\* which are the frames that were serialised, in order, none dropped and
\* none twice.
C28_ChunkBoundaryInvariance ==
    (calc.fn = "feed" /\ calc.args.rest = <<>>) =>
        /\ calc.value.out = feed(NewDecoder, calc.args.body).out
        /\ calc.value.out = calc.args.sent

\* a body of two frames, the first with a brace inside a string, has been
\* fed one character at a time and both frames are out
C28_Witness ==
    /\ calc.fn = "feed"
    /\ calc.args.rest = <<>>
    /\ calc.args.pieces = Len(calc.args.body)
    /\ Len(calc.args.sent) = 2
    /\ calc.args.sent[1] = <<"{", "\"", "}", "\"", "}">>
    /\ calc.value.out = calc.args.sent

\* the number of message:update notifications in a list of notifications
C29_Updates(notifications) ==
    Cardinality({i \in 1..Len(notifications) : notifications[i] = "message:update"})

\* C29: every operation that changes the ledger (an accepted send, a frame,
\* also one that merges a pending payload, an error that flags the last
\* message, hydrateToolCallUI, addToolCallsToLastMessage, loadSession,
\* clearMessages) emits message:update exactly once.
C29_OneUpdatePerMutation ==
    [][messages' # messages => C29_Updates(emitted') = 1]_vars

\* the length of the longest common prefix of two strings
RECURSIVE C30_CommonPrefixLen(_, _)
C30_CommonPrefixLen(a, b) ==
    IF a = <<>> \/ b = <<>> \/ Head(a) # Head(b) THEN 0
    ELSE 1 + C30_CommonPrefixLen(Tail(a), Tail(b))

\* C30: a RunContent frame with string content c appends to the agent
\* message c without its longest common prefix with the last known full
\* content, whatever the two strings are; identical content appends nothing.
C30_AppendsBeyondCommonPrefix ==
    [][(/\ lastOp'.op = "onChunk"
        /\ frames' = frames + 1
        /\ lastOp'.chunk.event \in ContentEvents
        /\ lastOp'.chunk.content.kind = "string"
        /\ Len(messages) > 0
        /\ LastMessage.role = "agent") =>
          LET c == lastOp'.chunk.content.s
              n == C30_CommonPrefixLen(lastContent, c)
          IN  /\ Len(messages') = Len(messages)
              /\ messages'[Len(messages')].content =
                     LastMessage.content \o SubSeq(c, n + 1, Len(c))]_vars


\* C31: every accepted sendMessage and every accepted continueRun resets the
\* reducer's last content, so that the first RunContent frame of the run is
\* diffed against the empty string
C31_ResetAtRunStart ==
    [][(/\ lastOp'.op \in {"sendMessage", "continueRun"}
        /\ lastOp'.result = "ok"
        /\ requests' # requests) => lastContent' = <<>>]_vars


\* C32: RunCompleted is an idempotent overwrite: a RunCompleted frame with
\* string content c leaves the agent message with the content c whatever it
\* held before, and the same frame applied a second time leaves the message
\* as the first application left it.
C32_CompletedIdempotent ==
    [][(/\ lastOp'.op = "onChunk"
        /\ lastOp'.chunk.event \in CompletedEvents
        /\ Len(messages) > 0
        /\ LastMessage.role = "agent") =>
           /\ Len(messages') = Len(messages)
           /\ lastOp'.chunk.content.kind = "string" =>
                  messages'[Len(messages')].content = lastOp'.chunk.content.s
           /\ (lastOp.op = "onChunk" /\ lastOp.chunk = lastOp'.chunk) =>
                  messages' = messages]_vars


\* the reasoning steps an object (a frame or a message) carries
C33_Steps(obj) ==
    IF Has(ExtraData(obj), "reasoning_steps")
    THEN ExtraData(obj).reasoning_steps ELSE <<>>

\* C33: a ReasoningStep frame makes the message's reasoning_steps the
\* previous list followed by the frame's steps, duplicates kept; a
\* ReasoningCompleted frame that carries a list makes reasoning_steps exactly
\* that list; neither changes the content or the tool calls.
C33_ReasoningSteps ==
    [][(/\ lastOp'.op = "onChunk"
        /\ Len(messages) > 0
        /\ LastMessage.role = "agent") =>
           LET chunk == lastOp'.chunk
               after == messages'[Len(messages')]
           IN  /\ chunk.event \in {"ReasoningStep", "TeamReasoningStep"} =>
                      /\ Len(messages') = Len(messages)
                      /\ C33_Steps(after) = C33_Steps(LastMessage) \o C33_Steps(chunk)
                      /\ after.content = LastMessage.content
                      /\ after.tool_calls = LastMessage.tool_calls
               /\ chunk.event \in {"ReasoningCompleted", "TeamReasoningCompleted"} =>
                      /\ Len(messages') = Len(messages)
                      /\ Has(ExtraData(chunk), "reasoning_steps") =>
                             C33_Steps(after) = C33_Steps(chunk)
                      /\ after.content = LastMessage.content
                      /\ after.tool_calls = LastMessage.tool_calls]_vars

\* a ReasoningStep frame with two steps has been folded into a message that
\* held the first of them already: the step is there twice
C33_Witness ==
    /\ lastOp.op = "onChunk"
    /\ lastOp.chunk.event = "ReasoningStep"
    /\ C33_Steps(lastOp.chunk) = <<"s1", "s2">>
    /\ Len(messages) = 2
    /\ C33_Steps(LastMessage) = <<"s1", "s1", "s2">>


\* a message without the ui_component of its tool calls
C34_WithoutUI(msg) == [msg EXCEPT !.tool_calls = CleanedTools(@)]

\* C34: a frame changes at most the last message of the ledger: the ledger
\* keeps its length, and a message other than the last changes only by a
\* pending payload becoming the ui_component of a tool call whose id was
\* pending and which had no ui_component.
C34_FrameChangesLastOnly ==
    [][lastOp'.op = "onChunk" =>
          /\ Len(messages') = Len(messages)
          /\ \A i \in 1..(Len(messages) - 1) :
                 /\ C34_WithoutUI(messages'[i]) = C34_WithoutUI(messages[i])
                 /\ \A j \in 1..Len(messages[i].tool_calls) :
                        LET before == messages[i].tool_calls[j]
                        IN  messages'[i].tool_calls[j] # before =>
                                /\ ~Has(before, "ui_component")
                                /\ HasId(before)
                                /\ before.tool_call_id \in PendingIds(pendingUISpecs)]_vars

\* a frame has been folded into the placeholder of a ledger of four messages
\* and the payload that was pending went to the tool call of the second one
C34_Witness ==
    /\ lastOp.op = "onChunk"
    /\ Len(messages) = 4
    /\ LastMessage.tool_calls # <<>>
    /\ Len(messages[2].tool_calls) = 1
    /\ Has(messages[2].tool_calls[1], "ui_component")
    /\ emitted = <<"message:update", "message:update">>


\* the identity of a tool call: its tool_call_id, and the fallback derived
\* from tool_name and created_at when it has none
C35_Identity(tc) == IF HasId(tc) THEN tc.tool_call_id ELSE FallbackId(tc)

\* the identities of the tool calls of a message, in order
C35_Identities(msg) ==
    [j \in 1..Len(msg.tool_calls) |-> C35_Identity(msg.tool_calls[j])]

\* C35: no message holds two tool calls with the same identity, and a frame
\* or an addToolCallsToLastMessage keeps the tool calls the last message
\* holds, in their order, and adds new identities at the end.
C35_ToolCallsOrderedSet ==
    [][/\ \A i \in 1..Len(messages') :
              \A j, l \in 1..Len(messages'[i].tool_calls) :
                  C35_Identities(messages'[i])[j] = C35_Identities(messages'[i])[l]
                      => j = l
       /\ (/\ lastOp'.op \in {"onChunk", "addToolCallsToLastMessage"}
           /\ Len(messages) > 0
           /\ Len(messages') = Len(messages)) =>
              IsPrefix(C35_Identities(LastMessage),
                       C35_Identities(messages'[Len(messages')]))]_vars


\* C36: on a transport that eventually reports the completion or the failure
\* of every stream, every accepted sendMessage and continueRun is followed by
\* a state in which isStreaming is false.
C36_RunsTerminate == isStreaming ~> ~isStreaming

\* a continued run whose stream has ended: nothing is streaming, no stream is
\* open, and the run before it had been paused
C36_Witness ==
    /\ lastOp.op = "onComplete"
    /\ lastOp.stream.kind = "continue"
    /\ Len(requests) = 2
    /\ OpenStreams = {}
    /\ ~isStreaming


\* C37: a paused run can always be continued: a continueRun called in agent
\* mode with an entity selected, while isPaused is true and no stream is in
\* flight, is accepted.
C37_PausedRunContinuable ==
    [][(/\ lastOp'.op = "continueRun"
        /\ isPaused
        /\ OpenStreams = {}
        /\ getMode = "agent"
        /\ HasRunUrl) => lastOp'.result = "ok"]_vars


\* C38: on a client that started without a session id and without known
\* sessions, a send that ends without error and whose stream carried a
\* RunStarted frame with session id s leaves s among the known sessions.
\* Stated for the sends whose last frame is that RunStarted frame and whose
\* stream is the only one open.
C38_StartedSessionKnown ==
    [][(/\ lastOp.op = "onChunk"
        /\ lastOp.chunk.event = "RunStarted"
        /\ Truthy(lastOp.chunk.session_id)
        /\ lastOp.stream.kind = "send"
        /\ ~lastOp.stream.errored
        /\ Cardinality(OpenStreams) = 1
        /\ lastOp'.op = "onComplete"
        /\ lastOp'.stream = lastOp.stream) =>
           lastOp.chunk.session_id \in KnownSessionIds(sessions')]_vars


\* C39: the frames and the failure of a run are folded only into the
\* placeholder its own send appended.  Stated for the step that follows a
\* loadSession: the ledger is the loaded history then, every open stream
\* belongs to an earlier turn, and a frame or a failure of such a stream
\* changes no message (but for a pending payload attached to a tool call).
C39_FramesStayInOwnTurn ==
    [][(/\ lastOp.op = "loadSession"
        /\ lastOp'.op \in {"onChunk", "onError"}) =>
           /\ Len(messages') = Len(messages)
           /\ \A i \in 1..Len(messages) :
                  C34_WithoutUI(messages'[i]) = C34_WithoutUI(messages[i])]_vars


\* C40: only the last message of the ledger may be flagged streamingError:
\* no flagged message is followed by another message.
C40_OnlyLastFlagged ==
    \A i \in 1..(Len(messages) - 1) : ~messages[i].streamingError

=============================================================================
